---------------------------- MODULE Spec2Model ----------------------------
(***************************************************************************)
(* Model of the interning engine of rust-interning.                        *)
(*                                                                         *)
(*   - Interner (src/src/intern.rs): an append-only vector of canonical    *)
(*     values, a concurrent hash index of ids and a request counter.       *)
(*     intern() is modelled step by step (counter, entry under the index   *)
(*     lock, vector push, index insert, release), one worker thread per    *)
(*     element of Threads; push() is the exclusive (&mut) path used by     *)
(*     deserialization.                                                    *)
(*   - InternedSet's run-length codec (src/src/schema/optimized.rs), as    *)
(*     pure operators over 32-bit words.                                   *)
(***************************************************************************)
EXTENDS Integers, Sequences, FiniteSets, TLC

\* ------------------------------------------------------------------ bounds
NumThreads == 2
NumValues == 3
NumHashes == 2
\* Operations on one store in a run: values pushed by deserialization plus
\* intern() calls.
MaxOps == 3
MaxPush == 2
\* The codec: small ids are 0 .. MaxSmallId, sets hold up to MaxSetLen ids and
\* the decoder materialises runs of up to MaxRun ids.
MaxSmallId == 4
MaxSetLen == 3
MaxRun == 8

Threads == 1..NumThreads
Contents == 1..NumValues

\* The representations a caller may hand to intern(): test_str_interner uses
\* &str, String, Box<str> and Cow<str>.
Reprs == {"str", "String", "Box", "Cow"}

\* The representations the concurrent workers use: a borrowed and an owned one.
WorkerReprs == {"str", "String"}

NoReq == [content |-> 0, repr |-> "none"]
NoId == -1

VARIABLES
    vec,         \* Interner.vec: the stored values, id i at position i + 1
    map,         \* Interner.map: the index, a set of [hash, id] entries
    references,  \* Interner.references
    lock,        \* per hash bucket of the index: the thread inside entry(), or 0
    pc,          \* per thread: its position inside intern()
    req,         \* per thread: the argument of its current / last intern()
    slot,        \* per thread: the id its entry refers to (NoId when none)
    phase,       \* "loading" while deserialization owns the store, then "shared"
    input,       \* deserialization: the values still to be pushed
    loaded,      \* number of values pushed by deserialization
    returned,    \* history: <<content, id>> of every completed intern()
    completed,   \* history: number of completed intern() calls
    raced,       \* history: contents requested by two in-flight calls while absent
    log,         \* history (sequential runs): the completed calls, in order
    build,       \* codec: the build profile ("debug" checks integer overflow)
    iset,        \* codec: InternedSet.set being serialized, as u32 ids
    wire,        \* codec: the serialized token sequence
    oset,        \* codec: the deserialized InternedSet.set
    cpc,         \* codec: "off", "new", "encoded" or "decoded"
    interners,   \* driver: the Interners, per store its values and request counter
    file,        \* driver: per worker, the file it was given
    work,        \* driver: per worker, the loops of Data::from in progress
    opt,         \* driver: per worker, the compacted record
    wpc,         \* driver: per worker, its position in the closure
    datas,       \* driver: the output collection
    origin,      \* history: per position of datas, the worker that pushed it
    file_count,  \* driver: the counter of ingested files
    file_error_count, \* driver: the counter of files that did not parse
    aborted,     \* driver: a worker panicked
    verdict,     \* eq_with against another record: the record and the result
    call,        \* a call of a pure function: its arguments, position and result
    orig         \* round trip of a store: the store that was serialized

storeVars == <<vec, map, references, lock, pc, req, slot, phase, input, loaded,
               returned, completed, raced, log>>

codecVars == <<build, iset, wire, oset, cpc>>

schemaVars == <<interners, file, work, opt, wpc, datas, origin, file_count,
                file_error_count, aborted, verdict>>

pureVars == <<call, orig>>

vars == <<storeVars, codecVars, schemaVars, pureVars>>

\* What the actions of one part of the model leave alone.
restOfStore == <<codecVars, schemaVars, pureVars>>
restOfCodec == <<storeVars, schemaVars, pureVars>>
restOfSchema == <<storeVars, codecVars, pureVars>>
restOfPure == <<storeVars, codecVars, schemaVars>>

\* ------------------------------------------------------- value conversions
\* value.borrow(): the content of an argument or of a stored value.
Borrow(x) == x.content

\* value.into(): the argument converted to the storage type Box<str>.
Into(x) == [content |-> x.content, repr |-> "Box"]

\* The values of the storage type.
Storage == [content : Contents, repr : {"Box"}]

Hashes == 0..(NumHashes - 1)

\* self.hasher.hash_one(value.borrow()): a function of the content alone;
\* distinct contents may collide.
HashOne(c) == c % NumHashes

\* ----------------------------------------------------------------- lookups
\* Interner::len
len == Len(vec)

\* self.vec[id as usize]: panics when id is out of range.
InRange(id) == id >= 0 /\ id < len

VecAt(id) == vec[id + 1]

\* Interner::lookup
Lookup(id) == VecAt(id)

\* Interner::lookup_ref
LookupRef(id) == Borrow(VecAt(id))

\* references.fetch_add(1, Relaxed)
FetchAddNone(n) == n
FetchAdd(n) == n + 1

\* The equality closure of entry(): |&i| self.vec[i].borrow() == value.borrow()
EqClosureByRepr(i, value) == VecAt(i) = value
EqClosure(i, value) == Borrow(VecAt(i)) = Borrow(value)

\* The probe of entry(): the index entries filed under `hash` that the
\* equality closure accepts.
Probe(hash, value) ==
    {e \in map : e.hash = hash /\ EqClosure(e.id, value)}

\* Interned: PartialEq::eq and Ord::cmp, both over the id alone.
InternedEq(self, other) == self = other

InternedCmp(self, other) ==
    IF self < other THEN "Less" ELSE IF self = other THEN "Equal" ELSE "Greater"

\* entry() holds its bucket of the index exclusively until the entry is dropped.
LockFreeAlways(h) == TRUE
LockFree(h) == lock[h] = 0

\* AppendVec::push / push_mut: the vector with the element appended ...
VecPushFront(v, x) == <<x>> \o v
VecPush(v, x) == Append(v, x)

\* ... and the index it returns for that element.
PushIdAfter == len + 1
PushId == len

\* ==================================================== the compacted schema
\* Option<T>: None is the empty sequence, Some(x) the one-element sequence.
None == <<>>
Some(x) == <<x>>
is_some(o) == Len(o) = 1
is_none(o) == Len(o) = 0

MinOf(S) == CHOOSE m \in S : \A n \in S : m <= n

\* ------------------------------------------------------------- timestamps
\* The timestamp strings of the model, with what chrono makes of each.
\* "%Y%m%dT%H%M%S" strings: two ordinary local times, a leap second (parsed,
\* its 60th second dropped by timestamp()), a local time that occurs twice in
\* Paris (end of summer time), one that does not occur (start of summer
\* time), and a string that does not parse.
ParisTexts ==
    {"20240101T000000", "20240101T000100", "20240101T000060",
     "20241027T023000", "20240331T023000", "yesterday"}

\* TimestampSecondsParis::from_formatted: ok = FALSE is one of its panics.
from_formatted(x) ==
    CASE x = "20240101T000000" -> [ok |-> TRUE, ts |-> 1704063600]
      [] x = "20240101T000100" -> [ok |-> TRUE, ts |-> 1704063660]
      [] x = "20240101T000060" -> [ok |-> TRUE, ts |-> 1704063659]
      [] x = "20241027T023000" -> [ok |-> TRUE, ts |-> 1729989000]
      [] OTHER -> [ok |-> FALSE, ts |-> 0]

\* TimestampSecondsParis::to_formatted
to_formatted(ts) ==
    CASE ts = 1704063600 -> "20240101T000000"
      [] ts = 1704063660 -> "20240101T000100"
      [] ts = 1704063659 -> "20240101T000059"
      [] ts = 1729989000 -> "20241027T023000"

\* RFC 3339 strings: UTC with milliseconds, UTC without a fraction, the same
\* instant written with an offset, and a string that does not parse.
RfcTexts ==
    {"2024-01-01T00:00:00.000Z", "2024-01-01T00:00:00.250Z",
     "2024-01-01T00:00:00Z", "2024-01-01T01:00:00.000+01:00", "yesterday"}

\* TimestampMillis::from_rfc3339: the i64 of milliseconds is kept as
\* <<seconds, milliseconds>>; ok = FALSE is its panic.
from_rfc3339(x) ==
    CASE x = "2024-01-01T00:00:00.000Z" -> [ok |-> TRUE, ts |-> <<1704067200, 0>>]
      [] x = "2024-01-01T00:00:00.250Z" -> [ok |-> TRUE, ts |-> <<1704067200, 250>>]
      [] x = "2024-01-01T00:00:00Z" -> [ok |-> TRUE, ts |-> <<1704067200, 0>>]
      [] x = "2024-01-01T01:00:00.000+01:00" -> [ok |-> TRUE, ts |-> <<1704067200, 0>>]
      [] OTHER -> [ok |-> FALSE, ts |-> <<0, 0>>]

\* TimestampMillis::to_rfc3339: to_rfc3339_opts(SecondsFormat::Millis, true)
to_rfc3339(ts) ==
    CASE ts = <<1704067200, 0>> -> "2024-01-01T00:00:00.000Z"
      [] ts = <<1704067200, 250>> -> "2024-01-01T00:00:00.250Z"

\* --------------------------------------------------------------- Interners
StoreNames ==
    {"string", "uuid", "disruption_set", "disruption", "application_period",
     "line_set", "line", "line_header", "impacted_object", "object", "uuid_set"}

\* Interners::default(): every store an Interner::default(), of which the
\* schema sees the value sequence and the request counter.
InternersDefault == [k \in StoreNames |-> [vec |-> <<>>, references |-> 0]]

\* The variant that appends without looking for the value.
InternedFromPush(I, k, value) ==
    [I |-> [I EXCEPT ![k] = [vec |-> Append(I[k].vec, value),
                             references |-> I[k].references + 1]],
     id |-> Len(I[k].vec)]

\* Interned::from: interner.intern(value) on store k, as one atomic call.
InternedFrom(I, k, value) ==
    LET s == I[k]
        hits == {i \in 1..Len(s.vec) : s.vec[i] = value}
    IN IF hits # {}
       THEN [I |-> [I EXCEPT ![k].references = @ + 1], id |-> MinOf(hits) - 1]
       ELSE [I |-> [I EXCEPT ![k] = [vec |-> Append(s.vec, value),
                                     references |-> s.references + 1]],
             id |-> Len(s.vec)]

\* Interned::lookup_ref / Interned::lookup on store k.
InternedLookupRef(I, k, id) == I[k].vec[id + 1]

\* impl EqWith for Interned: self.lookup_ref(interner) == other
InternedEqWith(I, k, id, other) == InternedLookupRef(I, k, id) = other

\* slice::sort_unstable on handles (ordered by id).
RECURSIVE SortDedup(_)
SortDedup(s) ==
    IF s = <<>> THEN <<>>
    ELSE LET m == MinOf({s[i] : i \in 1..Len(s)})
         IN <<m>> \o SortDedup(SelectSeq(s, LAMBDA x : x # m))
RECURSIVE SortUnstable(_)
SortUnstable(s) ==
    IF s = <<>> THEN <<>>
    ELSE LET m == MinOf({s[i] : i \in 1..Len(s)})
             k == MinOf({i \in 1..Len(s) : s[i] = m})
         IN <<m>> \o SortUnstable(SubSeq(s, 1, k - 1) \o SubSeq(s, k + 1, Len(s)))

\* InternedSet::new: collect, then sort_unstable.
InternedSetCollect(ids) == ids
InternedSetNew(ids) == SortUnstable(ids)

\* The elements of a slice or of an Option.
Elems(s) == {s[i] : i \in 1..Len(s)}

\* fn option_eq_by. The closure `pred` is passed as its table: pred[x, y] for
\* x among the elements of lhs and y among those of rhs.
option_eq_by(lhs, rhs, pred) ==
    IF is_none(lhs) /\ is_none(rhs) THEN TRUE
    ELSE IF is_none(lhs) \/ is_none(rhs) THEN FALSE
    ELSE pred[lhs[1], rhs[1]]

\* fn set_eq_by, the 'outer loop: cand[i] holds the positions of rhs that
\* pred accepts for lhs[i]; each x takes the first one not used yet.
RECURSIVE OuterNoFlags(_, _, _)
OuterNoFlags(cand, i, used) ==
    IF i > Len(cand) THEN TRUE
    ELSE IF cand[i] = {} THEN FALSE
    ELSE OuterNoFlags(cand, i + 1, used)
RECURSIVE Outer(_, _, _)
Outer(cand, i, used) ==
    IF i > Len(cand) THEN TRUE
    ELSE LET free == cand[i] \ used
         IN IF free = {} THEN FALSE
            ELSE Outer(cand, i + 1, used \cup {MinOf(free)})

\* fn set_eq_by / InternedSet::set_eq_by
set_eq_by(lhs, rhs, pred) ==
    IF Len(lhs) # Len(rhs) THEN FALSE
    ELSE Outer([i \in 1..Len(lhs) |-> {j \in 1..Len(rhs) : pred[lhs[i], rhs[j]]}], 1, {})

\* ------------------------------------------------- compaction (X::from)
\* Every conversion returns the stores after it, whether it completed (ok =
\* FALSE is a panic, which leaves the stores as they were when it struck) and
\* the compacted value.

\* ApplicationPeriod::from
ApplicationPeriodFrom(I, source) ==
    LET b == from_formatted(source.begin)
        e == from_formatted(source.end)
    IN [I |-> I, ok |-> b.ok /\ e.ok, val |-> [begin |-> b.ts, end |-> e.ts]]

\* source.application_periods.into_iter().map(from, then intern)
RECURSIVE ApplicationPeriodsFrom(_, _, _)
ApplicationPeriodsFrom(I, list, ids) ==
    IF list = <<>> THEN [I |-> I, ok |-> TRUE, val |-> ids]
    ELSE LET p == ApplicationPeriodFrom(I, Head(list))
         IN IF ~p.ok THEN [I |-> p.I, ok |-> FALSE, val |-> ids]
            ELSE LET h == InternedFrom(p.I, "application_period", p.val)
                 IN ApplicationPeriodsFrom(h.I, Tail(list), Append(ids, h.id))

\* x.into_iter().map(|x| Interned::from(store k, x)) for strings and UUIDs
RECURSIVE InternEach(_, _, _, _)
InternEach(I, k, list, ids) ==
    IF list = <<>> THEN [I |-> I, val |-> ids]
    ELSE LET h == InternedFrom(I, k, Head(list))
         IN InternEach(h.I, k, Tail(list), Append(ids, h.id))

\* Disruption::from. source.short_message is not read; source.message is
\* interned as the string optimized::Disruption.message declares.
DisruptionFrom(I, source) ==
    LET id == InternedFrom(I, "uuid", source.id)
        ap == ApplicationPeriodsFrom(id.I, source.application_periods, <<>>)
        lu == from_formatted(source.last_update)
    IN IF ~ap.ok \/ ~lu.ok THEN [I |-> ap.I, ok |-> FALSE, val |-> <<>>]
       ELSE
        LET cause == InternedFrom(ap.I, "string", source.cause)
            severity == InternedFrom(cause.I, "string", source.severity)
            tags == IF is_some(source.tags)
                    THEN InternEach(severity.I, "string", source.tags[1], <<>>)
                    ELSE [I |-> severity.I, val |-> <<>>]
            title == InternedFrom(tags.I, "string", source.title)
            message == InternedFrom(title.I, "string", source.message)
            did == IF is_some(source.disruption_id)
                   THEN InternedFrom(message.I, "uuid", source.disruption_id[1])
                   ELSE [I |-> message.I, id |-> 0]
        IN [I |-> did.I, ok |-> TRUE,
            val |-> [id |-> id.id,
                     application_periods |-> InternedSetNew(ap.val),
                     last_update |-> lu.ts,
                     cause |-> cause.id,
                     severity |-> severity.id,
                     tags |-> IF is_some(source.tags)
                              THEN Some(InternedSetNew(tags.val)) ELSE None,
                     title |-> title.id,
                     message |-> message.id,
                     disruption_id |-> IF is_some(source.disruption_id)
                                       THEN Some(did.id) ELSE None]]

\* ImpactedObject::from
ImpactedObjectFrom(I, source) ==
    LET ids == InternEach(I, "uuid", source.disruption_ids, <<>>)
        typ == InternedFrom(ids.I, "string", source.typ)
        id == InternedFrom(typ.I, "string", source.id)
        name == InternedFrom(id.I, "string", source.name)
        object == InternedFrom(name.I, "object",
                               [typ |-> typ.id, id |-> id.id, name |-> name.id])
        set == InternedFrom(object.I, "uuid_set", InternedSetNew(ids.val))
    IN [I |-> set.I, ok |-> TRUE,
        val |-> [object |-> object.id, disruption_ids |-> set.id]]

\* source.impacted_objects.into_iter().map(from, then intern)
RECURSIVE ImpactedObjectsFrom(_, _, _)
ImpactedObjectsFrom(I, list, ids) ==
    IF list = <<>> THEN [I |-> I, val |-> ids]
    ELSE LET o == ImpactedObjectFrom(I, Head(list))
             h == InternedFrom(o.I, "impacted_object", o.val)
         IN ImpactedObjectsFrom(h.I, Tail(list), Append(ids, h.id))

\* Line::from
LineFrom(I, source) ==
    LET id == InternedFrom(I, "string", source.id)
        name == InternedFrom(id.I, "string", source.name)
        short_name == InternedFrom(name.I, "string", source.short_name)
        mode == InternedFrom(short_name.I, "string", source.mode)
        network_id == InternedFrom(mode.I, "string", source.network_id)
        header == InternedFrom(network_id.I, "line_header",
                               [id |-> id.id, name |-> name.id,
                                short_name |-> short_name.id, mode |-> mode.id,
                                network_id |-> network_id.id])
        ios == ImpactedObjectsFrom(header.I, source.impacted_objects, <<>>)
    IN [I |-> ios.I, ok |-> TRUE,
        val |-> [header |-> header.id,
                 impacted_objects |-> InternedSetNew(ios.val)]]

\* ------------------------------------------------- equivalence (eq_with)
\* impl EqWith<source::ApplicationPeriod> for ApplicationPeriod
ApplicationPeriodEqWith(I, self, other) ==
    /\ to_formatted(self.begin) = other.begin
    /\ to_formatted(self.end) = other.end

\* impl EqWith<source::Disruption> for Disruption
DisruptionEqWith(I, self, other) ==
    /\ InternedEqWith(I, "uuid", self.id, other.id)
    /\ set_eq_by(self.application_periods, other.application_periods,
                 [x \in Elems(self.application_periods),
                  y \in Elems(other.application_periods) |->
                     ApplicationPeriodEqWith(
                         I, InternedLookupRef(I, "application_period", x), y)])
    /\ to_formatted(self.last_update) = other.last_update
    /\ InternedEqWith(I, "string", self.cause, other.cause)
    /\ InternedEqWith(I, "string", self.severity, other.severity)
    /\ option_eq_by(self.tags, other.tags,
                    [s \in Elems(self.tags), t \in Elems(other.tags) |->
                        set_eq_by(s, t,
                            [x \in Elems(s), y \in Elems(t) |->
                                InternedEqWith(I, "string", x, y)])])
    /\ InternedEqWith(I, "string", self.title, other.title)
    /\ InternedEqWith(I, "string", self.message, other.message)
    /\ option_eq_by(self.disruption_id, other.disruption_id,
                    [x \in Elems(self.disruption_id),
                     y \in Elems(other.disruption_id) |->
                        InternedEqWith(I, "uuid", x, y)])

\* impl EqWith<source::ImpactedObject> for Object
ObjectEqWith(I, self, other) ==
    /\ InternedEqWith(I, "string", self.typ, other.typ)
    /\ InternedEqWith(I, "string", self.id, other.id)
    /\ InternedEqWith(I, "string", self.name, other.name)

\* impl EqWith<source::ImpactedObject> for ImpactedObject
ImpactedObjectEqWith(I, self, other) ==
    /\ ObjectEqWith(I, InternedLookupRef(I, "object", self.object), other)
    /\ set_eq_by(InternedLookupRef(I, "uuid_set", self.disruption_ids),
                 other.disruption_ids,
                 [x \in Elems(InternedLookupRef(I, "uuid_set", self.disruption_ids)),
                  y \in Elems(other.disruption_ids) |->
                     InternedEqWith(I, "uuid", x, y)])

\* impl EqWith<source::Line> for LineHeader
LineHeaderEqWith(I, self, other) ==
    /\ InternedEqWith(I, "string", self.id, other.id)
    /\ InternedEqWith(I, "string", self.name, other.name)
    /\ InternedEqWith(I, "string", self.short_name, other.short_name)
    /\ InternedEqWith(I, "string", self.mode, other.mode)
    /\ InternedEqWith(I, "string", self.network_id, other.network_id)

\* impl EqWith<source::Line> for Line
LineEqWith(I, self, other) ==
    /\ LineHeaderEqWith(I, InternedLookupRef(I, "line_header", self.header), other)
    /\ set_eq_by(self.impacted_objects, other.impacted_objects,
                 [x \in Elems(self.impacted_objects),
                  y \in Elems(other.impacted_objects) |->
                     ImpactedObjectEqWith(
                         I, InternedLookupRef(I, "impacted_object", x), y)])

\* DataSuccess::eq_with, the comparisons of the three success fields.
SuccessFieldsMatch(I, self, other) ==
    /\ is_some(other.disruptions)
    /\ set_eq_by(InternedLookupRef(I, "disruption_set", self.disruptions),
                 other.disruptions[1],
                 [x \in Elems(InternedLookupRef(I, "disruption_set", self.disruptions)),
                  y \in Elems(other.disruptions[1]) |->
                     DisruptionEqWith(I, InternedLookupRef(I, "disruption", x), y)])
    /\ is_some(other.lines)
    /\ set_eq_by(InternedLookupRef(I, "line_set", self.lines), other.lines[1],
                 [x \in Elems(InternedLookupRef(I, "line_set", self.lines)),
                  y \in Elems(other.lines[1]) |->
                     LineEqWith(I, InternedLookupRef(I, "line", x), y)])
    /\ is_some(other.last_updated_date)
    /\ to_rfc3339(self.last_updated_date) = other.last_updated_date[1]

\* DataSuccess::eq_with, the checks that the error fields are absent.
ErrorFieldsAbsentUnchecked(other) == TRUE
ErrorFieldsAbsent(other) ==
    /\ is_none(other.status_code)
    /\ is_none(other.error)
    /\ is_none(other.message)

\* impl EqWith<source::Data> for DataSuccess
DataSuccessEqWith(I, self, other) ==
    /\ SuccessFieldsMatch(I, self, other)
    /\ ErrorFieldsAbsent(other)

\* DataError::eq_with, the comparisons of the three error fields.
ErrorFieldsMatch(I, self, other) ==
    /\ is_some(other.status_code) /\ self.status_code = other.status_code[1]
    /\ is_some(other.error)
    /\ InternedEqWith(I, "string", self.error, other.error[1])
    /\ is_some(other.message)
    /\ InternedEqWith(I, "string", self.message, other.message[1])

\* DataError::eq_with, the checks that the success fields are absent.
SuccessFieldsAbsent(other) ==
    /\ is_none(other.disruptions)
    /\ is_none(other.lines)
    /\ is_none(other.last_updated_date)

\* impl EqWith<source::Data> for DataError
DataErrorEqWith(I, self, other) ==
    /\ ErrorFieldsMatch(I, self, other)
    /\ SuccessFieldsAbsent(other)

\* impl EqWith<source::Data> for Data
DataEqWith(I, self, other) ==
    IF self.variant = "Success" THEN DataSuccessEqWith(I, self, other)
    ELSE DataErrorEqWith(I, self, other)

\* Data::from, the two patterns of its match.
SuccessShapedLax(source) ==
    /\ is_some(source.disruptions) /\ is_some(source.lines)
    /\ is_some(source.last_updated_date)
SuccessShaped(source) ==
    /\ is_some(source.disruptions) /\ is_some(source.lines)
    /\ is_some(source.last_updated_date)
    /\ is_none(source.status_code) /\ is_none(source.error) /\ is_none(source.message)

ErrorShaped(source) ==
    /\ is_none(source.disruptions) /\ is_none(source.lines)
    /\ is_none(source.last_updated_date)
    /\ is_some(source.status_code) /\ is_some(source.error) /\ is_some(source.message)

\* ---------------------------------------------------------- source records
\* The leaves of the source records: strings, UUIDs, status codes and the
\* two kinds of timestamp strings.
Leaves ==
    [string |-> {"a", "b"}, uuid |-> {"u1", "u2"}, status_code |-> {404, 500},
     paris |-> ParisTexts, rfc |-> RfcTexts]

\* A file without any field.
NoFields ==
    [disruptions |-> None, lines |-> None, last_updated_date |-> None,
     status_code |-> None, error |-> None, message |-> None]

SuccessOf(disruptions, lines, date) ==
    [NoFields EXCEPT !.disruptions = Some(disruptions), !.lines = Some(lines),
                     !.last_updated_date = Some(date)]

ErrorOf(code, error, message) ==
    [NoFields EXCEPT !.status_code = Some(code), !.error = Some(error),
                     !.message = Some(message)]

\* The base records: two disruptions D1 and D2, a line L1, the success files
\* S1 and S2, the error file E1, and Filled, which has every field.
Base ==
    LET P1 == [begin |-> "20240101T000000", end |-> "20240101T000100"]
        P2 == [begin |-> "20241027T023000", end |-> "20241027T023000"]
        D1 == [id |-> "u1", application_periods |-> <<P1, P2>>,
               last_update |-> "20240101T000000", cause |-> "a", severity |-> "b",
               tags |-> Some(<<"a", "b">>), title |-> "a", message |-> "b",
               short_message |-> Some("a"), disruption_id |-> Some("u2")]
        D2 == [id |-> "u2", application_periods |-> <<P1>>,
               last_update |-> "20240101T000100", cause |-> "a", severity |-> "a",
               tags |-> None, title |-> "b", message |-> "b",
               short_message |-> None, disruption_id |-> None]
        O1 == [typ |-> "a", id |-> "b", name |-> "a",
               disruption_ids |-> <<"u2", "u1">>]
        L1 == [id |-> "a", name |-> "b", short_name |-> "a", mode |-> "b",
               network_id |-> "a", impacted_objects |-> <<O1>>]
        S1 == SuccessOf(<<D1, D2>>, <<L1>>, "2024-01-01T00:00:00.000Z")
    IN [D1 |-> D1, D2 |-> D2, L1 |-> L1, S1 |-> S1,
        S2 |-> SuccessOf(<<D2, D2>>, <<>>, "2024-01-01T00:00:00.250Z"),
        E1 |-> ErrorOf(404, "a", "b"),
        Filled |-> [S1 EXCEPT !.status_code = Some(404), !.error = Some("a"),
                              !.message = Some("b")]]

\* The records that differ from a record in exactly one leaf: a string, a
\* UUID, a timestamp string, the status code or the presence of an optional
\* field.
OptionVariants(o, pool) ==
    IF is_none(o) THEN {Some(v) : v \in pool}
    ELSE {None} \cup {Some(v) : v \in pool \ {o[1]}}

ElementVariants(list, pool) ==
    UNION {{[list EXCEPT ![i] = v] : v \in pool \ {list[i]}} : i \in 1..Len(list)}

VariantsOfApplicationPeriod(p) ==
    {[p EXCEPT !.begin = t] : t \in Leaves.paris \ {p.begin}}
        \cup {[p EXCEPT !.end = t] : t \in Leaves.paris \ {p.end}}

VariantsOfDisruption(d) ==
    {[d EXCEPT !.id = v] : v \in Leaves.uuid \ {d.id}}
        \cup UNION {{[d EXCEPT !.application_periods[i] = q] :
                        q \in VariantsOfApplicationPeriod(d.application_periods[i])} :
                    i \in 1..Len(d.application_periods)}
        \cup {[d EXCEPT !.last_update = t] : t \in Leaves.paris \ {d.last_update}}
        \cup {[d EXCEPT !.cause = v] : v \in Leaves.string \ {d.cause}}
        \cup {[d EXCEPT !.severity = v] : v \in Leaves.string \ {d.severity}}
        \cup (IF is_none(d.tags) THEN {[d EXCEPT !.tags = Some(<<>>)]}
              ELSE {[d EXCEPT !.tags = None]}
                       \cup {[d EXCEPT !.tags = Some(l)] :
                                l \in ElementVariants(d.tags[1], Leaves.string)})
        \cup {[d EXCEPT !.title = v] : v \in Leaves.string \ {d.title}}
        \cup {[d EXCEPT !.message = v] : v \in Leaves.string \ {d.message}}
        \cup {[d EXCEPT !.short_message = o] :
                 o \in OptionVariants(d.short_message, Leaves.string)}
        \cup {[d EXCEPT !.disruption_id = o] :
                 o \in OptionVariants(d.disruption_id, Leaves.uuid)}

VariantsOfImpactedObject(o) ==
    {[o EXCEPT !.typ = v] : v \in Leaves.string \ {o.typ}}
        \cup {[o EXCEPT !.id = v] : v \in Leaves.string \ {o.id}}
        \cup {[o EXCEPT !.name = v] : v \in Leaves.string \ {o.name}}
        \cup {[o EXCEPT !.disruption_ids = l] :
                 l \in ElementVariants(o.disruption_ids, Leaves.uuid)}

VariantsOfLine(l) ==
    {[l EXCEPT !.id = v] : v \in Leaves.string \ {l.id}}
        \cup {[l EXCEPT !.name = v] : v \in Leaves.string \ {l.name}}
        \cup {[l EXCEPT !.short_name = v] : v \in Leaves.string \ {l.short_name}}
        \cup {[l EXCEPT !.mode = v] : v \in Leaves.string \ {l.mode}}
        \cup {[l EXCEPT !.network_id = v] : v \in Leaves.string \ {l.network_id}}
        \cup UNION {{[l EXCEPT !.impacted_objects[i] = o] :
                        o \in VariantsOfImpactedObject(l.impacted_objects[i])} :
                    i \in 1..Len(l.impacted_objects)}

\* A change of the presence of one field of a file: a field that appears is
\* given the value it has in `filled`.
PresenceVariants(s, filled) ==
    {[s EXCEPT ![f] = IF is_some(s[f]) THEN None ELSE filled[f]] :
        f \in DOMAIN s}

\* A change of the value of one field of a file that is present.
ValueVariants(s, f, pool) ==
    IF is_none(s[f]) THEN {}
    ELSE {[s EXCEPT ![f] = Some(v)] : v \in pool \ {s[f][1]}}

VariantsOfData(s) ==
    PresenceVariants(s, Base.Filled)
        \cup (IF is_none(s.disruptions) THEN {}
              ELSE UNION {{[s EXCEPT !.disruptions[1][i] = d] :
                              d \in VariantsOfDisruption(s.disruptions[1][i])} :
                          i \in 1..Len(s.disruptions[1])})
        \cup (IF is_none(s.lines) THEN {}
              ELSE UNION {{[s EXCEPT !.lines[1][i] = l] :
                              l \in VariantsOfLine(s.lines[1][i])} :
                          i \in 1..Len(s.lines[1])})
        \cup ValueVariants(s, "last_updated_date", Leaves.rfc)
        \cup ValueVariants(s, "status_code", Leaves.status_code)
        \cup ValueVariants(s, "error", Leaves.string)
        \cup ValueVariants(s, "message", Leaves.string)

\* ------------------------------------------------------ the ingestion driver
BadJson == [json |-> "bad", data |-> NoFields]
Parsed(d) == [json |-> "ok", data |-> d]

\* The driver before any worker has run, apart from the stores and the files.
DriverIdle ==
    /\ work = [t \in Threads |-> [ds |-> <<>>, dh |-> <<>>, ls |-> <<>>, lh |-> <<>>]]
    /\ opt = [t \in Threads |-> [variant |-> "none"]]
    /\ datas = <<>>
    /\ origin = <<>>
    /\ file_count = 0
    /\ file_error_count = 0
    /\ aborted = FALSE
    /\ verdict = [other |-> NoFields, result |-> FALSE]

\* The files of a concurrent run: one that does not parse, success files
\* that share values, one whose date is written without milliseconds, one
\* whose date does not parse, an error file and a file with fields of both
\* variants.
DriverFiles ==
    {BadJson,
     Parsed(Base.S2),
     Parsed(SuccessOf(<<Base.D1>>, <<>>, "2024-01-01T00:00:00.000Z")),
     Parsed(SuccessOf(<<Base.D2>>, <<Base.L1>>, "2024-01-01T00:00:00Z")),
     Parsed(SuccessOf(<<>>, <<>>, "yesterday")),
     Parsed(Base.E1),
     Parsed([Base.E1 EXCEPT !.disruptions = Some(<<>>)])}

\* The files of a sequential run: the base records and every record one leaf
\* away from Base.S1 or Base.E1.
SchemaFiles ==
    {Parsed(s) : s \in {Base.S1, Base.S2, Base.E1, Base.Filled, NoFields}
                        \cup VariantsOfData(Base.S1) \cup VariantsOfData(Base.E1)}

\* Stores that already hold values when a run starts.
WarmInterners ==
    [InternersDefault EXCEPT
        !.string = [vec |-> <<"b", "a">>, references |-> 2],
        !.uuid = [vec |-> <<"u2">>, references |-> 3]]

PureOff ==
    /\ call = [pc |-> "off"]
    /\ orig = [taken |-> FALSE, vec |-> <<>>]

SchemaOff ==
    /\ interners = InternersDefault
    /\ file = [t \in Threads |-> BadJson]
    /\ wpc = [t \in Threads |-> "off"]
    /\ DriverIdle


\* ------------------------------------------------------------------- Init
\* Interner::default()
StoreInit ==
    /\ vec = <<>>
    /\ map = {}
    /\ references = 0
    /\ lock = [h \in Hashes |-> 0]
    /\ pc = [t \in Threads |-> "idle"]
    /\ req = [t \in Threads |-> NoReq]
    /\ slot = [t \in Threads |-> NoId]
    /\ loaded = 0
    /\ returned = {}
    /\ completed = 0
    /\ raced = {}
    /\ log = <<>>

\* No InternedSet is being serialized.
CodecOff ==
    /\ build = "debug"
    /\ iset = <<>>
    /\ wire = <<>>
    /\ oset = <<>>
    /\ cpc = "off"

Init ==
    /\ StoreInit
    /\ phase = "shared"
    /\ input = <<>>
    /\ CodecOff
    /\ SchemaOff
    /\ PureOff

\* ---------------------------------------------------------------- intern()
InFlight(t) == pc[t] \in {"counted", "vacant", "pushed", "occupied"}

Quiescent == \A t \in Threads : ~InFlight(t)

InFlightAbsent(u, c) ==
    /\ pc[u] \in {"counted", "vacant"}
    /\ Borrow(req[u]) = c

Stored(c) == \E i \in 1..len : Borrow(vec[i]) = c

\* intern(), first statements: references.fetch_add(1), then the hash.
Call(t, v, r) ==
    /\ phase = "shared"
    /\ pc[t] \in {"idle", "done"}
    /\ references + loaded < MaxOps
    /\ references' = FetchAdd(references)
    /\ req' = [req EXCEPT ![t] = [content |-> v, repr |-> r]]
    /\ slot' = [slot EXCEPT ![t] = NoId]
    /\ pc' = [pc EXCEPT ![t] = "counted"]
    /\ raced' = IF ~Stored(v) /\ \E u \in Threads \ {t} : InFlightAbsent(u, v)
                THEN raced \cup {v} ELSE raced
    /\ UNCHANGED <<vec, map, lock, phase, input, loaded, returned, completed>>

\* map.entry(hash, eq, hasher): takes the bucket's lock and probes.
Entry(t) ==
    /\ pc[t] = "counted"
    /\ LET h == HashOne(Borrow(req[t]))
           found == Probe(h, req[t])
       IN /\ LockFree(h)
          /\ lock' = [lock EXCEPT ![h] = t]
          /\ IF found # {}
             THEN \E e \in found :
                    /\ slot' = [slot EXCEPT ![t] = e.id]
                    /\ pc' = [pc EXCEPT ![t] = "occupied"]
             ELSE /\ slot' = slot
                  /\ pc' = [pc EXCEPT ![t] = "vacant"]
    /\ UNCHANGED <<vec, map, references, req, phase, input, loaded,
                   returned, completed, raced>>

\* or_insert_with, the closure: let id = self.vec.push(value.into()).
PushVec(t) ==
    /\ pc[t] = "vacant"
    /\ vec' = VecPush(vec, Into(req[t]))
    /\ slot' = [slot EXCEPT ![t] = PushId]
    /\ pc' = [pc EXCEPT ![t] = "pushed"]
    /\ UNCHANGED <<map, references, lock, req, phase, input, loaded,
                   returned, completed, raced>>

\* The variant that leaves the index as it is.
InsertMapSkipped(t) ==
    /\ pc[t] = "pushed"
    /\ pc' = [pc EXCEPT ![t] = "occupied"]
    /\ UNCHANGED <<vec, map, references, lock, req, slot, phase, input, loaded,
                   returned, completed, raced>>

\* or_insert_with, the insertion of the closure's id under the probed hash.
InsertMap(t) ==
    /\ pc[t] = "pushed"
    /\ map' = map \cup {[hash |-> HashOne(Borrow(req[t])), id |-> slot[t]]}
    /\ pc' = [pc EXCEPT ![t] = "occupied"]
    /\ UNCHANGED <<vec, references, lock, req, slot, phase, input, loaded,
                   returned, completed, raced>>

\* The variant in which the entry's lock outlives the call.
ReturnHoldingLock(t) ==
    /\ pc[t] = "occupied"
    /\ pc' = [pc EXCEPT ![t] = "done"]
    /\ returned' = returned \cup {<<Borrow(req[t]), slot[t]>>}
    /\ completed' = completed + 1
    /\ UNCHANGED <<vec, map, references, lock, req, slot, phase, input, loaded, raced>>

\* .get() copies the id out; dropping the entry releases the lock.
Return(t) ==
    /\ pc[t] = "occupied"
    /\ lock' = [lock EXCEPT ![HashOne(Borrow(req[t]))] = 0]
    /\ pc' = [pc EXCEPT ![t] = "done"]
    /\ returned' = returned \cup {<<Borrow(req[t]), slot[t]>>}
    /\ completed' = completed + 1
    /\ UNCHANGED <<vec, map, references, req, slot, phase, input, loaded, raced>>

\* Concurrent workers sharing one store (main.rs: par_iter over the files).
Next ==
    \E t \in Threads :
        \/ \E v \in Contents, r \in WorkerReprs :
              Call(t, v, r) /\ UNCHANGED <<log, restOfStore>>
        \/ Entry(t) /\ UNCHANGED <<log, restOfStore>>
        \/ PushVec(t) /\ UNCHANGED <<log, restOfStore>>
        \/ InsertMap(t) /\ UNCHANGED <<log, restOfStore>>
        \/ Return(t) /\ UNCHANGED <<log, restOfStore>>

Spec == Init /\ [][Next]_vars

\* A single caller (test_str_interner): thread 1 alone, any representation.
SeqReturn ==
    /\ Return(1)
    /\ log' = Append(log, [content |-> Borrow(req[1]), repr |-> req[1].repr,
                           id |-> slot[1]])
    /\ UNCHANGED restOfStore

SeqNext ==
    \/ \E v \in Contents, r \in Reprs : Call(1, v, r) /\ UNCHANGED <<log, restOfStore>>
    \/ Entry(1) /\ UNCHANGED <<log, restOfStore>>
    \/ PushVec(1) /\ UNCHANGED <<log, restOfStore>>
    \/ InsertMap(1) /\ UNCHANGED <<log, restOfStore>>
    \/ SeqReturn

SeqSpec == Init /\ [][SeqNext]_vars

\* ------------------------------------------------ push() / deserialization
BoundedSeq(S, n) == UNION {[1..k -> S] : k \in 0..n}

\* InternerVisitor::visit_seq starts from an empty store that it owns.
LoadInit ==
    /\ StoreInit
    /\ phase = "loading"
    /\ input \in BoundedSeq(Storage, MaxPush)
    /\ CodecOff
    /\ SchemaOff
    /\ PureOff

\* The variant that probes as intern() does: a value whose content is stored
\* is not appended again.
PushProbing ==
    /\ phase = "loading"
    /\ input # <<>>
    /\ LET value == Head(input)
           hash == HashOne(Borrow(value))
       IN IF Probe(hash, value) # {}
          THEN UNCHANGED <<vec, map>>
          ELSE /\ vec' = VecPush(vec, value)
               /\ map' = map \cup {[hash |-> hash, id |-> PushId]}
    /\ input' = Tail(input)
    /\ loaded' = loaded + 1
    /\ UNCHANGED <<references, lock, pc, req, slot, phase, returned, completed,
                   raced, log, restOfStore>>

\* The variant that appends without filing the id in the index.
PushUnindexed ==
    /\ phase = "loading"
    /\ input # <<>>
    /\ vec' = VecPush(vec, Head(input))
    /\ input' = Tail(input)
    /\ loaded' = loaded + 1
    /\ UNCHANGED <<map, references, lock, pc, req, slot, phase, returned, completed,
                   raced, log, restOfStore>>

\* Interner::push: appends without probing and files the id under the hash.
Push ==
    /\ phase = "loading"
    /\ input # <<>>
    /\ LET value == Head(input)
           hash == HashOne(Borrow(value))
       IN /\ vec' = VecPush(vec, value)
          /\ map' = map \cup {[hash |-> hash, id |-> PushId]}
    /\ input' = Tail(input)
    /\ loaded' = loaded + 1
    /\ UNCHANGED <<references, lock, pc, req, slot, phase, returned, completed,
                   raced, log, restOfStore>>

\* visit_seq returns Ok(interner): the store is handed to its users.
FinishLoad ==
    /\ phase = "loading"
    /\ input = <<>>
    /\ phase' = "shared"
    /\ UNCHANGED <<vec, map, references, lock, pc, req, slot, input, loaded,
                   returned, completed, raced, log, restOfStore>>

LoadNext ==
    \/ Push
    \/ FinishLoad
    \/ \E t \in Threads :
        \/ \E v \in Contents, r \in WorkerReprs :
              Call(t, v, r) /\ UNCHANGED <<log, restOfStore>>
        \/ Entry(t) /\ UNCHANGED <<log, restOfStore>>
        \/ PushVec(t) /\ UNCHANGED <<log, restOfStore>>
        \/ InsertMap(t) /\ UNCHANGED <<log, restOfStore>>
        \/ Return(t) /\ UNCHANGED <<log, restOfStore>>

LoadSpec == LoadInit /\ [][LoadNext]_vars

\* ----------------------------------------- 32-bit words (Interned.id: u32)
\* A u32 is a pair <<hi, lo>> of 16-bit limbs, so that the whole range
\* 0 .. 2^32 - 1 is represented exactly; an i32 is an integer in
\* -2^31 .. 2^31 - 1.
Limb == 65536

I32Max == 2147483647
I32Min == -I32Max - 1

U32FromInt(n) == <<n \div Limb, n % Limb>>

U32Zero == <<0, 0>>
U32One == <<0, 1>>
U32Max == <<Limb - 1, Limb - 1>>

U32Le(a, b) == a[1] < b[1] \/ (a[1] = b[1] /\ a[2] <= b[2])
U32Lt(a, b) == a[1] < b[1] \/ (a[1] = b[1] /\ a[2] < b[2])

\* a - b on u32: the wrapped difference, and whether it underflowed.
U32Sub(a, b) ==
    LET borrow == IF a[2] < b[2] THEN 1 ELSE 0
        lo == a[2] - b[2] + borrow * Limb
        hi == a[1] - b[1] - borrow
    IN [val |-> <<IF hi < 0 THEN hi + Limb ELSE hi, lo>>, overflow |-> hi < 0]

\* a + b on u32: the wrapped sum, and whether it overflowed.
U32Add(a, b) ==
    LET lo == a[2] + b[2]
        carry == IF lo >= Limb THEN 1 ELSE 0
        hi == a[1] + b[1] + carry
    IN [val |-> <<hi % Limb, lo % Limb>>, overflow |-> hi >= Limb]

\* `diff as i32`: the same 32 bits read as a signed integer.
AsI32(d) ==
    IF d[1] >= Limb \div 2 THEN (d[1] - Limb) * Limb + d[2]
    ELSE d[1] * Limb + d[2]

\* `x as u32` for a non-negative i32.
AsU32(x) == U32FromInt(x)

\* The profiles a build can have: overflow checks panic in "debug" and wrap
\* in "release".
Builds == {"debug", "release"}

\* ------------------------------------- InternedSet: the run-length codec
Panic == [status |-> "panic", tokens |-> <<>>]

\* The token that closes a streak: rle_encoded.push(-streak).
StreakTokenPositive(streak) == streak
StreakToken(streak) == -streak

\* impl Serialize for InternedSet, the loop body for one id.
EncodeStep(st, id, b) ==
    LET p == IF st.some THEN st.prev ELSE U32Zero
        diff == U32Sub(id, p)
    IN IF diff.overflow /\ b = "debug"
       THEN [st EXCEPT !.status = "panic"]
       ELSE IF st.some /\ diff.val = U32One
            THEN [st EXCEPT !.streak = st.streak + 1, !.prev = id, !.some = TRUE]
            ELSE [st EXCEPT
                    !.rle = (IF st.streak # 0
                             THEN Append(st.rle, StreakToken(st.streak))
                             ELSE st.rle) \o <<AsI32(diff.val)>>,
                    !.streak = 0,
                    !.prev = id,
                    !.some = TRUE]

RECURSIVE EncodeLoop(_, _, _, _)
EncodeLoop(set, i, st, b) ==
    IF i > Len(set) \/ st.status # "ok" THEN st
    ELSE EncodeLoop(set, i + 1, EncodeStep(st, set[i], b), b)

\* impl Serialize for InternedSet: the token sequence handed to collect_seq.
Encode(set, b) ==
    LET st0 == [rle |-> <<>>, some |-> FALSE, prev |-> U32Zero, streak |-> 0,
                status |-> "ok"]
        st == EncodeLoop(set, 1, st0, b)
    IN IF st.status # "ok" THEN Panic
       ELSE [status |-> "ok",
             tokens |-> IF st.streak # 0
                        THEN Append(st.rle, StreakToken(st.streak))
                        ELSE st.rle]

\* InternedSetVisitor::visit_seq, the run loop: for _ in 0..-x { prev += 1; push }.
\* A run of more than MaxRun ids is not materialised: the result only records
\* that the set is longer than any set of the model ("overlong").
RECURSIVE DecodeRun(_, _, _)
DecodeRun(st, n, b) ==
    IF n = 0 \/ st.status # "ok" THEN st
    ELSE LET s == U32Add(st.prev, U32One)
         IN IF s.overflow /\ b = "debug"
            THEN [st EXCEPT !.status = "panic"]
            ELSE DecodeRun([st EXCEPT !.prev = s.val, !.set = Append(st.set, s.val)],
                           n - 1, b)

\* The variant that takes a non-negative token for the id itself.
DecodeStepAbsolute(st, x, b) ==
    IF x < 0
    THEN IF x = I32Min
         THEN IF b = "debug" THEN [st EXCEPT !.status = "panic"] ELSE st
         ELSE IF -x > MaxRun
              THEN [st EXCEPT !.status = "overlong"]
              ELSE DecodeRun(st, -x, b)
    ELSE [st EXCEPT !.prev = AsU32(x), !.set = Append(st.set, AsU32(x))]

\* InternedSetVisitor::visit_seq, the loop body for one token.
DecodeStep(st, x, b) ==
    IF x < 0
    THEN IF x = I32Min
         THEN \* -x overflows: a panic, or i32::MIN again and an empty range
              IF b = "debug" THEN [st EXCEPT !.status = "panic"] ELSE st
         ELSE IF -x > MaxRun
              THEN [st EXCEPT !.status = "overlong"]
              ELSE DecodeRun(st, -x, b)
    ELSE LET s == U32Add(st.prev, AsU32(x))
         IN IF s.overflow /\ b = "debug"
            THEN [st EXCEPT !.status = "panic"]
            ELSE [st EXCEPT !.prev = s.val, !.set = Append(st.set, s.val)]

RECURSIVE DecodeLoop(_, _, _, _)
DecodeLoop(tokens, i, st, b) ==
    IF i > Len(tokens) \/ st.status # "ok" THEN st
    ELSE DecodeLoop(tokens, i + 1, DecodeStep(st, tokens[i], b), b)

\* InternedSetVisitor::visit_seq: the set rebuilt from the tokens.
Decode(tokens, b) ==
    LET st == DecodeLoop(tokens, 1, [set |-> <<>>, prev |-> U32Zero, status |-> "ok"], b)
    IN [status |-> st.status, set |-> IF st.status = "ok" THEN st.set ELSE <<>>]

\* The ids of the sets that are serialized: small ids, and ids around 2^31
\* and 2^32 - 1.
IdPool ==
    {U32FromInt(n) : n \in 0..MaxSmallId}
        \cup {U32FromInt(I32Max), <<Limb \div 2, 0>>, <<Limb \div 2, 1>>, U32Max}

\* InternedSet.set is kept in ascending id order (InternedSet::new sorts and
\* keeps duplicates).
Ascending(set) == \A i \in 1..(Len(set) - 1) : U32Le(set[i], set[i + 1])

StrictlyAscending(set) == \A i \in 1..(Len(set) - 1) : U32Lt(set[i], set[i + 1])

\* The example of the specification: ids [5,6,7,10,12,13,14].
Example == [i \in 1..7 |-> U32FromInt(<<5, 6, 7, 10, 12, 13, 14>>[i])]
ExampleTokens == <<5, -2, 3, 2, -2>>

CodecInputs ==
    {set \in BoundedSeq(IdPool, MaxSetLen) : Ascending(set)} \cup {Example}

CodecInit ==
    /\ StoreInit
    /\ phase = "shared"
    /\ input = <<>>
    /\ build \in Builds
    /\ iset \in CodecInputs
    /\ wire = <<>>
    /\ oset = <<>>
    /\ cpc = "new"
    /\ SchemaOff
    /\ PureOff

\* serialize(): the set is encoded; a panic ends the run.
Serialize ==
    /\ cpc = "new"
    /\ LET e == Encode(iset, build)
       IN /\ wire' = e.tokens
          /\ cpc' = IF e.status = "ok" THEN "encoded" ELSE e.status
    /\ UNCHANGED <<restOfCodec, build, iset, oset>>

\* deserialize(): the tokens are decoded.
Deserialize ==
    /\ cpc = "encoded"
    /\ LET d == Decode(wire, build)
       IN /\ oset' = d.set
          /\ cpc' = IF d.status = "ok" THEN "decoded" ELSE d.status
    /\ UNCHANGED <<restOfCodec, build, iset, wire>>

CodecNext == Serialize \/ Deserialize

CodecSpec == CodecInit /\ [][CodecNext]_vars

\* deserialize() of a token sequence that no encoder need have written: runs,
\* zeros, small and large differences, and i32::MIN, in any order.
DecodeInit ==
    /\ StoreInit
    /\ phase = "shared"
    /\ input = <<>>
    /\ build \in Builds
    /\ iset = <<>>
    /\ wire \in BoundedSeq({I32Min, -2, -1, 0, 1, 3, I32Max}, MaxSetLen)
    /\ oset = <<>>
    /\ cpc = "encoded"
    /\ SchemaOff
    /\ PureOff

DecodeSpec == DecodeInit /\ [][Deserialize]_vars

\* A panic of worker w: the run is aborted.
PanicAt(w) ==
    /\ wpc' = [wpc EXCEPT ![w] = "panicked"]
    /\ aborted' = TRUE

\* The variant that counts a file that does not parse among the ingested.
ReadFileMiscounted(w) ==
    /\ wpc[w] = "file"
    /\ IF file[w].json = "bad"
       THEN /\ file_count' = file_count + 1
            /\ wpc' = [wpc EXCEPT ![w] = "skipped"]
       ELSE /\ wpc' = [wpc EXCEPT ![w] = "parsed"]
            /\ UNCHANGED file_count
    /\ UNCHANGED <<interners, file, work, opt, datas, origin, file_error_count,
                   aborted, verdict>>

\* main.rs, the closure given to visit_dirs: serde_json::from_slice and the
\* match on its result.
ReadFile(w) ==
    /\ wpc[w] = "file"
    /\ IF file[w].json = "bad"
       THEN /\ file_error_count' = file_error_count + 1
            /\ wpc' = [wpc EXCEPT ![w] = "skipped"]
       ELSE /\ wpc' = [wpc EXCEPT ![w] = "parsed"]
            /\ UNCHANGED file_error_count
    /\ UNCHANGED <<interners, file, work, opt, datas, origin, file_count,
                   aborted, verdict>>

\* The variant that interns the strings a record carries before it looks at
\* the combination of its fields.
DataFromMatchLate(w) ==
    /\ wpc[w] = "parsed"
    /\ LET source == file[w].data
           early == IF is_some(source.error)
                    THEN InternedFrom(interners, "string", source.error[1]).I
                    ELSE interners
       IN IF SuccessShaped(source)
          THEN /\ work' = [work EXCEPT ![w] = [ds |-> source.disruptions[1], dh |-> <<>>,
                                               ls |-> source.lines[1], lh |-> <<>>]]
               /\ wpc' = [wpc EXCEPT ![w] = "success"]
               /\ UNCHANGED <<interners, opt, aborted>>
          ELSE IF ErrorShaped(source)
          THEN LET error == InternedFrom(interners, "string", source.error[1])
                   message == InternedFrom(error.I, "string", source.message[1])
               IN /\ interners' = message.I
                  /\ opt' = [opt EXCEPT ![w] = [variant |-> "Error",
                                                status_code |-> source.status_code[1],
                                                error |-> error.id,
                                                message |-> message.id]]
                  /\ wpc' = [wpc EXCEPT ![w] = "compacted"]
                  /\ UNCHANGED <<work, aborted>>
          ELSE /\ PanicAt(w)
               /\ interners' = early
               /\ UNCHANGED <<work, opt>>
    /\ UNCHANGED <<file, datas, origin, file_count, file_error_count, verdict>>

\* Data::from, the match: the error arm is compacted at once, the success
\* arm starts its two loops, any other combination of fields panics.
DataFromMatch(w) ==
    /\ wpc[w] = "parsed"
    /\ LET source == file[w].data
       IN IF SuccessShaped(source)
          THEN /\ work' = [work EXCEPT ![w] = [ds |-> source.disruptions[1], dh |-> <<>>,
                                               ls |-> source.lines[1], lh |-> <<>>]]
               /\ wpc' = [wpc EXCEPT ![w] = "success"]
               /\ UNCHANGED <<interners, opt, aborted>>
          ELSE IF ErrorShaped(source)
          THEN LET error == InternedFrom(interners, "string", source.error[1])
                   message == InternedFrom(error.I, "string", source.message[1])
               IN /\ interners' = message.I
                  /\ opt' = [opt EXCEPT ![w] = [variant |-> "Error",
                                                status_code |-> source.status_code[1],
                                                error |-> error.id,
                                                message |-> message.id]]
                  /\ wpc' = [wpc EXCEPT ![w] = "compacted"]
                  /\ UNCHANGED <<work, aborted>>
          ELSE /\ PanicAt(w)
               /\ UNCHANGED <<interners, work, opt>>
    /\ UNCHANGED <<file, datas, origin, file_count, file_error_count, verdict>>

\* Data::from, one turn of disruptions.into_iter().map(..): Disruption::from
\* and Interned::from on the disruption store.
DataFromDisruption(w) ==
    /\ wpc[w] = "success"
    /\ work[w].ds # <<>>
    /\ LET d == DisruptionFrom(interners, Head(work[w].ds))
       IN IF d.ok
          THEN LET h == InternedFrom(d.I, "disruption", d.val)
               IN /\ interners' = h.I
                  /\ work' = [work EXCEPT ![w].ds = Tail(@), ![w].dh = Append(@, h.id)]
                  /\ UNCHANGED <<wpc, aborted>>
          ELSE /\ interners' = d.I
               /\ PanicAt(w)
               /\ UNCHANGED work
    /\ UNCHANGED <<file, opt, datas, origin, file_count, file_error_count, verdict>>

\* Data::from, one turn of lines.into_iter().map(..): Line::from and
\* Interned::from on the line store.
DataFromLine(w) ==
    /\ wpc[w] = "success"
    /\ work[w].ds = <<>>
    /\ work[w].ls # <<>>
    /\ LET l == LineFrom(interners, Head(work[w].ls))
           h == InternedFrom(l.I, "line", l.val)
       IN /\ interners' = h.I
          /\ work' = [work EXCEPT ![w].ls = Tail(@), ![w].lh = Append(@, h.id)]
    /\ UNCHANGED <<file, opt, wpc, datas, origin, file_count, file_error_count,
                   aborted, verdict>>

\* Data::from, the Data::Success literal: the two sets are interned, then
\* the date is parsed.
DataFromSuccess(w) ==
    /\ wpc[w] = "success"
    /\ work[w].ds = <<>>
    /\ work[w].ls = <<>>
    /\ LET disruptions == InternedFrom(interners, "disruption_set",
                                       InternedSetNew(work[w].dh))
           lines == InternedFrom(disruptions.I, "line_set", InternedSetNew(work[w].lh))
           date == from_rfc3339(file[w].data.last_updated_date[1])
       IN /\ interners' = lines.I
          /\ IF date.ok
             THEN /\ opt' = [opt EXCEPT ![w] = [variant |-> "Success",
                                                disruptions |-> disruptions.id,
                                                lines |-> lines.id,
                                                last_updated_date |-> date.ts]]
                  /\ wpc' = [wpc EXCEPT ![w] = "compacted"]
                  /\ UNCHANGED aborted
             ELSE /\ PanicAt(w)
                  /\ UNCHANGED opt
    /\ UNCHANGED <<file, work, datas, origin, file_count, file_error_count, verdict>>

\* The variant without the assertion: the record goes on unchecked.
AssertNothing(w) ==
    /\ wpc[w] = "compacted"
    /\ wpc' = [wpc EXCEPT ![w] = "checked"]
    /\ UNCHANGED <<interners, file, work, opt, datas, origin, file_count,
                   file_error_count, aborted, verdict>>

\* assert!(optimized.eq_with(&data, &interners), ..)
AssertEqWith(w) ==
    /\ wpc[w] = "compacted"
    /\ IF DataEqWith(interners, opt[w], file[w].data)
       THEN /\ wpc' = [wpc EXCEPT ![w] = "checked"]
            /\ UNCHANGED aborted
       ELSE PanicAt(w)
    /\ UNCHANGED <<interners, file, work, opt, datas, origin, file_count,
                   file_error_count, verdict>>

\* The variant without the mutex: the push writes at the length it read
\* before any other worker's push, here over the last record.
PushDataUnlocked(w) ==
    /\ wpc[w] = "checked"
    /\ datas' = IF datas = <<>> THEN <<opt[w]>>
                ELSE [datas EXCEPT ![Len(datas)] = opt[w]]
    /\ origin' = IF origin = <<>> THEN <<w>>
                 ELSE [origin EXCEPT ![Len(origin)] = w]
    /\ wpc' = [wpc EXCEPT ![w] = "pushed"]
    /\ UNCHANGED <<interners, file, work, opt, file_count, file_error_count,
                   aborted, verdict>>

\* datas.lock().unwrap().push(optimized); origin remembers the worker whose
\* record each position holds.
PushData(w) ==
    /\ wpc[w] = "checked"
    /\ datas' = Append(datas, opt[w])
    /\ origin' = Append(origin, w)
    /\ wpc' = [wpc EXCEPT ![w] = "pushed"]
    /\ UNCHANGED <<interners, file, work, opt, file_count, file_error_count,
                   aborted, verdict>>

\* file_count.fetch_add(1, Ordering::Relaxed)
CountFile(w) ==
    /\ wpc[w] = "pushed"
    /\ file_count' = file_count + 1
    /\ wpc' = [wpc EXCEPT ![w] = "done"]
    /\ UNCHANGED <<interners, file, work, opt, datas, origin, file_error_count,
                   aborted, verdict>>

\* A run of the driver: every worker of the pool has one file.
DriverInit ==
    /\ StoreInit
    /\ phase = "shared"
    /\ input = <<>>
    /\ CodecOff
    /\ interners = InternersDefault
    /\ file \in [Threads -> DriverFiles]
    /\ wpc = [t \in Threads |-> "file"]
    /\ DriverIdle
    /\ PureOff

DriverNext ==
    \E w \in Threads :
        \/ ReadFile(w) /\ UNCHANGED restOfSchema
        \/ DataFromMatch(w) /\ UNCHANGED restOfSchema
        \/ DataFromDisruption(w) /\ UNCHANGED restOfSchema
        \/ DataFromLine(w) /\ UNCHANGED restOfSchema
        \/ DataFromSuccess(w) /\ UNCHANGED restOfSchema
        \/ AssertEqWith(w) /\ UNCHANGED restOfSchema
        \/ PushData(w) /\ UNCHANGED restOfSchema
        \/ CountFile(w) /\ UNCHANGED restOfSchema

DriverSpec == DriverInit /\ [][DriverNext]_vars

\* eq_with of the compacted record of worker w against another source
\* record: its own source, a record one leaf away from it, or a base record.
\* The variant whose lookup counts as a request.
EqWithOtherCounting(w) ==
    /\ wpc[w] = "compacted"
    /\ \E other \in VariantsOfData(file[w].data) \cup {file[w].data, Base.S1, Base.E1} :
          verdict' = [other |-> other,
                      result |-> DataEqWith(interners, opt[w], other)]
    /\ wpc' = [wpc EXCEPT ![w] = "compared"]
    /\ interners' = [interners EXCEPT !.string.references = @ + 1]
    /\ UNCHANGED <<file, work, opt, datas, origin, file_count,
                   file_error_count, aborted>>

EqWithOther(w) ==
    /\ wpc[w] = "compacted"
    /\ \E other \in VariantsOfData(file[w].data) \cup {file[w].data, Base.S1, Base.E1} :
          verdict' = [other |-> other,
                      result |-> DataEqWith(interners, opt[w], other)]
    /\ wpc' = [wpc EXCEPT ![w] = "compared"]
    /\ UNCHANGED <<interners, file, work, opt, datas, origin, file_count,
                   file_error_count, aborted>>

\* A sequential run: one record is compacted, on empty or on used stores,
\* and compared.
SchemaInit ==
    /\ StoreInit
    /\ phase = "shared"
    /\ input = <<>>
    /\ CodecOff
    /\ interners \in {InternersDefault, WarmInterners}
    /\ file \in {[t \in Threads |-> IF t = 1 THEN f ELSE BadJson] : f \in SchemaFiles}
    /\ wpc = [t \in Threads |-> IF t = 1 THEN "file" ELSE "off"]
    /\ DriverIdle
    /\ PureOff

SchemaNext ==
    \/ ReadFile(1) /\ UNCHANGED restOfSchema
    \/ DataFromMatch(1) /\ UNCHANGED restOfSchema
    \/ DataFromDisruption(1) /\ UNCHANGED restOfSchema
    \/ DataFromLine(1) /\ UNCHANGED restOfSchema
    \/ DataFromSuccess(1) /\ UNCHANGED restOfSchema
    \/ EqWithOther(1) /\ UNCHANGED restOfSchema

SchemaSpec == SchemaInit /\ [][SchemaNext]_vars

\* --------------------------------------- a run of the pool, to its end
\* Every worker is inside Data::from for its file: it makes finitely many
\* intern calls on a shared store (MaxOps bounds the calls of the run), one
\* step of intern() at a time. The calls are for two contents, filed under
\* different buckets of the index: workers meet on one content and so on one
\* lock, or work on different buckets side by side.
LiveInit ==
    /\ StoreInit
    /\ phase = "shared"
    /\ input = <<>>
    /\ CodecOff
    /\ interners = InternersDefault
    /\ file = [t \in Threads |-> Parsed(Base.E1)]
    /\ wpc = [t \in Threads |-> "parsed"]
    /\ DriverIdle
    /\ PureOff

\* Data::from has made its last intern call: it returns and the assertion
\* passes, or the worker panics (a date that does not parse, a failed
\* assertion).
LeaveFrom(w) ==
    /\ wpc[w] = "parsed"
    /\ pc[w] \in {"idle", "done"}
    /\ \/ wpc' = [wpc EXCEPT ![w] = "checked"] /\ UNCHANGED aborted
       \/ PanicAt(w)
    /\ UNCHANGED <<interners, file, work, opt, datas, origin, file_count,
                   file_error_count, verdict>>

\* The steps of worker w: the steps of its intern calls, the end of
\* Data::from, the push under the mutex and the count.
LiveNext(w) ==
    \/ /\ wpc[w] = "parsed"
       /\ \/ \E v \in {1, 2} : Call(w, v, "str")
          \/ Entry(w)
          \/ PushVec(w)
          \/ InsertMap(w)
          \/ Return(w)
       /\ UNCHANGED <<log, restOfStore>>
    \/ LeaveFrom(w) /\ UNCHANGED restOfSchema
    \/ PushData(w) /\ UNCHANGED restOfSchema
    \/ CountFile(w) /\ UNCHANGED restOfSchema

\* Finitely many files, and every worker that can take a step is scheduled
\* again.
LiveSpec ==
    /\ LiveInit
    /\ [][\E w \in Threads : LiveNext(w)]_vars
    /\ \A w \in Threads : WF_vars(LiveNext(w))

\* ------------------------------------------------ round trip of a store
\* impl PartialEq for Interner: the borrowed values, in order.
InternerEq(a, b) ==
    [i \in 1..Len(a) |-> Borrow(a[i])] = [i \in 1..Len(b) |-> Borrow(b[i])]

\* impl Serialize for Interner: collect_seq over the borrowed values.
SerializeInterner(v) == [i \in 1..Len(v) |-> Borrow(v[i])]

\* seq.next_element(): a value of the storage type read from the sequence.
NextElement(c) == [content |-> c, repr |-> "Box"]

\* The store is serialized once no call is in progress, and visit_seq starts
\* on the serialized sequence with an Interner::default().
SerializeStore ==
    /\ phase = "shared"
    /\ Quiescent
    /\ ~orig.taken
    /\ orig' = [taken |-> TRUE, vec |-> vec]
    /\ input' = [i \in 1..len |-> NextElement(SerializeInterner(vec)[i])]
    /\ vec' = <<>>
    /\ map' = {}
    /\ references' = 0
    /\ loaded' = 0
    /\ phase' = "loading"
    /\ UNCHANGED <<lock, pc, req, slot, returned, completed, raced, log, call,
                   codecVars, schemaVars>>

RoundNext ==
    \/ SerializeStore
    \/ Push
    \/ FinishLoad
    \/ \E t \in Threads :
        \/ \E v \in Contents, r \in WorkerReprs :
              ~orig.taken /\ Call(t, v, r) /\ UNCHANGED <<log, restOfStore>>
        \/ Entry(t) /\ UNCHANGED <<log, restOfStore>>
        \/ PushVec(t) /\ UNCHANGED <<log, restOfStore>>
        \/ InsertMap(t) /\ UNCHANGED <<log, restOfStore>>
        \/ Return(t) /\ UNCHANGED <<log, restOfStore>>

RoundSpec == Init /\ [][RoundNext]_vars

\* ------------------------------------------------ set_eq_by, called alone
\* A call of canonical.set_eq_by(raw, |x, y| x.eq_with(y, store)): the store
\* holds no value twice, as intern() builds it; the canonical array holds up
\* to MaxSetLen ids of the store in ascending order, repeated ids kept.
SetEqInit ==
    /\ StoreInit
    /\ phase = "shared"
    /\ input = <<>>
    /\ CodecOff
    /\ SchemaOff
    /\ \E v \in BoundedSeq({"a", "b", "c"}, 3),
          r \in BoundedSeq({"a", "b", "c"}, MaxSetLen) :
       \E c \in BoundedSeq(0..(Len(v) - 1), MaxSetLen) :
          /\ \A i, j \in 1..Len(v) : i # j => v[i] # v[j]
          /\ \A i \in 1..(Len(c) - 1) : c[i] <= c[i + 1]
          /\ orig = [taken |-> FALSE, vec |-> <<>>]
          /\ call = [pc |-> "set_eq_by",
                     store |-> [InternersDefault EXCEPT !.string.vec = v],
                     canonical |-> c, raw |-> r, result |-> FALSE]

SetEqBy ==
    /\ call.pc = "set_eq_by"
    /\ call' = [call EXCEPT
                   !.pc = "returned",
                   !.result = set_eq_by(call.canonical, call.raw,
                                  [x \in Elems(call.canonical), y \in Elems(call.raw) |->
                                      InternedEqWith(call.store, "string", x, y)])]
    /\ UNCHANGED <<orig, restOfPure>>

SetEqSpec == SetEqInit /\ [][SetEqBy]_vars

\* ------------------------------------------ set_eq_by, with any predicate
\* A call of set_eq_by(lhs, rhs, pred) over slices of distinct elements
\* (1 .. n against 1 .. m) and any predicate over their pairs.
AnyPredInit ==
    /\ StoreInit
    /\ phase = "shared"
    /\ input = <<>>
    /\ CodecOff
    /\ SchemaOff
    /\ orig = [taken |-> FALSE, vec |-> <<>>]
    /\ \E n, m \in 0..MaxSetLen :
       \E p \in [(1..n) \X (1..m) -> BOOLEAN] :
          call = [pc |-> "set_eq_by", lhs |-> [i \in 1..n |-> i],
                  rhs |-> [j \in 1..m |-> j], pred |-> p, result |-> FALSE]

SetEqByAnyPred ==
    /\ call.pc = "set_eq_by"
    /\ call' = [call EXCEPT !.pc = "returned",
                            !.result = set_eq_by(call.lhs, call.rhs, call.pred)]
    /\ UNCHANGED <<orig, restOfPure>>

AnyPredSpec == AnyPredInit /\ [][SetEqByAnyPred]_vars

\* -------------------------------------------------- handles on the wire
\* An integer of the serde data model: `low` holds its low 32 bits when it is
\* a u32; `neg` marks a negative integer, `over` one of 2^32 or more.
WireInt(id) == [neg |-> FALSE, over |-> FALSE, low |-> id]

\* impl Serialize for Interned: serializer.serialize_u32(self.id)
SerializeHandleLow(id) == WireInt(<<0, id[2]>>)
SerializeHandle(id) == WireInt(id)

\* The methods through which a codec can hand an integer to the visitor:
\* those whose argument type holds it.
Carriers(value) ==
    {m \in {"visit_u8", "visit_u16", "visit_u32", "visit_u64",
            "visit_i8", "visit_i16", "visit_i32", "visit_i64"} :
        IF value.over THEN m \in {"visit_u64", "visit_i64"}
        ELSE IF value.neg
        THEN /\ m \in {"visit_i8", "visit_i16", "visit_i32", "visit_i64"}
             /\ m = "visit_i8" => value.low[1] = 0 /\ value.low[2] <= 128
             /\ m = "visit_i16" => value.low[1] = 0 /\ value.low[2] <= Limb \div 2
             /\ m = "visit_i32" => U32Le(value.low, <<Limb \div 2, 0>>)
        ELSE /\ m = "visit_u8" => value.low[1] = 0 /\ value.low[2] < 256
             /\ m = "visit_i8" => value.low[1] = 0 /\ value.low[2] < 128
             /\ m = "visit_u16" => value.low[1] = 0
             /\ m = "visit_i16" => value.low[1] = 0 /\ value.low[2] < Limb \div 2
             /\ m = "visit_i32" => value.low[1] < Limb \div 2}

\* U32Visitor: u32::from for u8, u16 and u32, try_into for the other types.
U32Visitor(m, value) ==
    IF m \in {"visit_u8", "visit_u16", "visit_u32"}
    THEN [ok |-> TRUE, id |-> value.low]
    ELSE IF value.neg \/ value.over
         THEN [ok |-> FALSE, id |-> U32Zero]
         ELSE [ok |-> TRUE, id |-> value.low]

\* A handle is serialized and deserialized, beside stores that are empty or
\* hold a few values; or an integer that no handle serializes to (-1, 2^32)
\* is deserialized as a handle.
HandleInit ==
    /\ StoreInit
    /\ phase = "shared"
    /\ input = <<>>
    /\ CodecOff
    /\ interners \in {InternersDefault, WarmInterners}
    /\ file = [t \in Threads |-> BadJson]
    /\ wpc = [t \in Threads |-> "off"]
    /\ DriverIdle
    /\ orig = [taken |-> FALSE, vec |-> <<>>]
    /\ \/ \E id \in IdPool :
             call = [pc |-> "handle", id |-> id, wire |-> WireInt(U32Zero),
                     visit |-> "none", out |-> [ok |-> FALSE, id |-> U32Zero]]
       \/ \E x \in {[neg |-> TRUE, over |-> FALSE, low |-> U32One],
                   [neg |-> FALSE, over |-> TRUE, low |-> U32Zero]} :
             call = [pc |-> "foreign", id |-> U32Zero, wire |-> x,
                     visit |-> "none", out |-> [ok |-> FALSE, id |-> U32Zero]]

\* Interned::serialize
HandleSerialize ==
    /\ call.pc = "handle"
    /\ call' = [call EXCEPT !.pc = "serialized", !.wire = SerializeHandle(call.id)]
    /\ UNCHANGED <<orig, restOfPure>>

\* Interned::deserialize: deserialize_u32(U32Visitor), the codec calling one
\* of the visitor's methods.
HandleDeserialize ==
    /\ call.pc \in {"serialized", "foreign"}
    /\ \E m \in Carriers(call.wire) :
          call' = [call EXCEPT
                      !.pc = IF call.pc = "serialized" THEN "deserialized" ELSE "read",
                      !.visit = m,
                      !.out = U32Visitor(m, call.wire)]
    /\ UNCHANGED <<orig, restOfPure>>

HandleSpec == HandleInit /\ [][HandleSerialize \/ HandleDeserialize]_vars

\* ------------------------------------------------ round trip of a database
\* struct Database, seen through one store, one handle of a compacted record
\* and one InternedSet; the ids are those of IdPool, the stores they point
\* into being as long as that takes.
Databases ==
    [store : {<<>>, <<NextElement(1)>>, <<NextElement(2), NextElement(1)>>},
     handle : {U32Zero, U32FromInt(I32Max), U32Max},
     set : CodecInputs]

\* #[derive(PartialEq)] for Database: the stores by Interner's PartialEq, the
\* handles and the sets by their ids.
DatabaseEq(a, b) ==
    /\ InternerEq(a.store, b.store)
    /\ a.handle = b.handle
    /\ a.set = b.set

\* InternerVisitor::visit_seq: one push per element.
RECURSIVE PushAll(_, _)
PushAll(v, elements) ==
    IF elements = <<>> THEN v
    ELSE PushAll(VecPush(v, NextElement(Head(elements))), Tail(elements))

DbInit ==
    /\ StoreInit
    /\ phase = "shared"
    /\ input = <<>>
    /\ CodecOff
    /\ SchemaOff
    /\ orig = [taken |-> FALSE, vec |-> <<>>]
    /\ \E db \in Databases, b \in Builds :
          call = [pc |-> "db", profile |-> b, db |-> db,
                  wire |-> [store |-> <<>>, handle |-> WireInt(U32Zero), set |-> <<>>],
                  out |-> db]

\* serde_round_trip: serialize(t)
DbSerialize ==
    /\ call.pc = "db"
    /\ LET e == Encode(call.db.set, call.profile)
       IN call' = [call EXCEPT
                      !.pc = IF e.status = "ok" THEN "db_serialized" ELSE "panicked",
                      !.wire = [store |-> SerializeInterner(call.db.store),
                                handle |-> SerializeHandle(call.db.handle),
                                set |-> e.tokens]]
    /\ UNCHANGED <<orig, restOfPure>>

\* serde_round_trip: deserialize(&serialized)
DbDeserialize ==
    /\ call.pc = "db_serialized"
    /\ \E m \in Carriers(call.wire.handle) :
          LET d == Decode(call.wire.set, call.profile)
              h == U32Visitor(m, call.wire.handle)
          IN call' = [call EXCEPT
                         !.pc = IF d.status = "ok" /\ h.ok THEN "db_deserialized"
                                ELSE IF d.status = "panic" THEN "panicked"
                                ELSE "failed",
                         !.out = [store |-> PushAll(<<>>, call.wire.store),
                                  handle |-> h.id,
                                  set |-> d.set]]
    /\ UNCHANGED <<orig, restOfPure>>

\* serde_round_trip: assert_eq!(&deserialized, t)
DbAssertEq ==
    /\ call.pc = "db_deserialized"
    /\ call' = [call EXCEPT !.pc = IF DatabaseEq(call.out, call.db)
                                   THEN "asserted" ELSE "panicked"]
    /\ UNCHANGED <<orig, restOfPure>>

\* serde_round_trip: File::create(path), write_all(&serialized)
DbWrite ==
    /\ call.pc = "asserted"
    /\ call' = [call EXCEPT !.pc = "written"]
    /\ UNCHANGED <<orig, restOfPure>>

DbSpec ==
    DbInit /\ [][DbSerialize \/ DbDeserialize \/ DbAssertEq \/ DbWrite]_vars

\* ------------------------------------------- InternedSet::new, then intern
\* Data::from builds a set of handles with InternedSet::new and interns it in
\* a set store; here two sets are built and interned one after the other,
\* from handles given in any order and with repetitions.
SetNewInit ==
    /\ StoreInit
    /\ phase = "shared"
    /\ input = <<>>
    /\ CodecOff
    /\ SchemaOff
    /\ orig = [taken |-> FALSE, vec |-> <<>>]
    /\ \E a, b \in BoundedSeq(0..(NumValues - 1), MaxSetLen) :
          call = [pc |-> "new", given |-> <<a, b>>, sets |-> <<>>,
                  handles |-> <<>>, store |-> InternersDefault]

\* Interned::from(&mut interners.uuid_set, InternedSet::new(ids))
SetNew ==
    /\ call.pc = "new"
    /\ LET set == InternedSetNew(call.given[Len(call.sets) + 1])
           r == InternedFrom(call.store, "uuid_set", set)
       IN call' = [call EXCEPT
                      !.pc = IF Len(call.sets) = 1 THEN "interned" ELSE "new",
                      !.sets = Append(@, set),
                      !.handles = Append(@, r.id),
                      !.store = r.I]
    /\ UNCHANGED <<orig, restOfPure>>

SetNewSpec == SetNewInit /\ [][SetNew]_vars

\* ================================================================ claims
ContentsOf(v) == {Borrow(v[i]) : i \in 1..Len(v)}

IdsHolding(c) == {i \in 0..(len - 1) : LookupRef(i) = c}

IsPrefix(a, b) == Len(a) <= Len(b) /\ \A i \in 1..Len(a) : a[i] = b[i]

\* C1: in a run of intern calls on a store that starts empty, two calls whose
\* arguments have equal content return the same id, whatever representation
\* each argument has.
C1_SameContentSameId ==
    \A i, j \in 1..Len(log) :
        log[i].content = log[j].content => log[i].id = log[j].id

C1_Witness ==
    \E i, j \in 1..Len(log) :
        /\ i < j
        /\ log[i].content = log[j].content
        /\ log[i].repr # log[j].repr
        /\ log[i].id = log[j].id

\* C2: when threads race to intern content-equal values that are not stored
\* yet, exactly one entry is appended for that content and every call that
\* returns for it returns that entry's id.
C2_RaceConverges ==
    \A c \in raced :
        /\ Cardinality(IdsHolding(c)) <= 1
        /\ \A p \in returned : p[1] = c => IdsHolding(c) = {p[2]}
        /\ \A t \in Threads :
              pc[t] = "done" /\ Borrow(req[t]) = c => IdsHolding(c) = {slot[t]}

C2_Witness ==
    \E c \in raced : \E t, u \in Threads :
        /\ t # u
        /\ references = 2
        /\ pc[t] = "done" /\ pc[u] = "done"
        /\ Borrow(req[t]) = c /\ Borrow(req[u]) = c
        /\ slot[t] = slot[u]
        /\ IdsHolding(c) = {slot[t]}

\* C3: in every reachable state of a store grown from empty by intern calls
\* alone, no two distinct ids hold content-equal values.
C3_Unique ==
    \A i, j \in 0..(len - 1) : i # j => LookupRef(i) # LookupRef(j)

C3_Witness ==
    /\ len >= 2
    /\ raced # {}
    /\ \E t \in Threads : pc[t] = "pushed"

\* C4: in a sequential run on an initially empty store the k-th distinct
\* content first interned (counting from 0) receives id k, and the ids handed
\* out are exactly 0 .. len - 1.
FirstOccurrences(l) ==
    {k \in 1..Len(l) : \A m \in 1..(k - 1) : l[m].content # l[k].content}

\* The number of distinct contents requested before call k.
DistinctBefore(l, k) ==
    Cardinality({l[m].content : m \in 1..(k - 1)})

C4_DenseIds ==
    /\ \A k \in FirstOccurrences(log) : log[k].id = DistinctBefore(log, k)
    /\ \A k, m \in FirstOccurrences(log) : k # m => log[k].id # log[m].id
    /\ Quiescent => {log[k].id : k \in 1..Len(log)} = 0..(len - 1)

C4_Witness ==
    /\ Quiescent
    /\ len = 3
    /\ Len(log) = 3
    /\ \A k \in 1..3 : log[k].id = k - 1

\* C5: the id an intern call returned for a value resolves, in the state in
\* which it returns and in every later state, to a value with that content.
C5_LookupOfIntern ==
    /\ \A p \in returned : InRange(p[2]) /\ LookupRef(p[2]) = p[1]
                           /\ Borrow(Lookup(p[2])) = p[1]
    /\ \A t \in Threads :
          pc[t] = "done" => InRange(slot[t]) /\ LookupRef(slot[t]) = Borrow(req[t])

C5_Witness ==
    \E p \in returned : \E t \in Threads :
        /\ InRange(p[2]) /\ LookupRef(p[2]) = p[1]
        /\ len > p[2] + 1
        /\ pc[t] = "pushed"

\* C6: across every step of intern or push the previous value sequence is a
\* prefix of the new one.
C6_AppendOnly == [][IsPrefix(vec, vec')]_vars

C6_Witness ==
    /\ loaded >= 1
    /\ len > loaded
    /\ len >= 3

\* C7: every intern call increments the request counter by exactly one, hit
\* or miss: the counter is the number of calls begun, and equals the number
\* of completed calls whenever none is in progress.
C7_CountsRequests ==
    /\ references = completed + Cardinality({t \in Threads : InFlight(t)})
    /\ Quiescent => references = completed

C7_Witness ==
    /\ Quiescent
    /\ completed = 3
    /\ references = 3
    /\ len = 1

\* C8: whenever all workers have finished their calls, the store holds
\* exactly the distinct requested contents, each once.
Requested == {p[1] : p \in returned}

C8_DistinctRequested ==
    Quiescent =>
        /\ ContentsOf(vec) = Requested
        /\ len = Cardinality(Requested)

C8_Witness ==
    /\ Quiescent
    /\ raced # {}
    /\ completed = 3
    /\ len = 2
    /\ ContentsOf(vec) = Requested

\* C9: for every ascending, duplicate-free sequence of u32 ids, the empty
\* and the single-element ones included, decoding the tokens produced by
\* serialization yields the original sequence.
C9_RoundTrip ==
    StrictlyAscending(iset) /\ cpc # "new" =>
        /\ cpc # "encoded" => cpc = "decoded"
        /\ cpc = "decoded" => oset = iset

\* C10: the ids [5,6,7,10,12,13,14] encode to the tokens [5,-2,3,2,-2], and
\* decoding [5,-2,3,2,-2] yields [5,6,7,10,12,13,14].
C10_Example ==
    /\ iset = Example /\ cpc # "new" => cpc \in {"encoded", "decoded"} /\ wire = ExampleTokens
    /\ wire = ExampleTokens /\ cpc \notin {"new", "encoded"} =>
          cpc = "decoded" /\ oset = Example

C10_Witness ==
    /\ iset = Example
    /\ cpc = "decoded"
    /\ wire = ExampleTokens
    /\ oset = Example

\* The workers whose Data::from has returned a compacted record.
Compacted == {w \in Threads : opt[w].variant # "none"}

\* C11: for every source record that Data::from accepted, as a success or
\* as an error record, the compacted record is eq_with that same source
\* record under the stores used for compaction, whatever other workers have
\* interned into them before or since.
C11_CompactedEqWithSource ==
    \A w \in Compacted : DataEqWith(interners, opt[w], file[w].data)

\* C12: once a source record has been compacted, eq_with of the compacted
\* record against a record that differs from the source in one leaf (a
\* string, a UUID, a timestamp string, the status code or the presence of
\* an optional field) is false.
C12_LeafChangeDetected ==
    \A w \in Threads :
        wpc[w] = "compared" /\ verdict.other \in VariantsOfData(file[w].data)
            => ~verdict.result

\* C13: the driver appends a compacted record to the output collection only
\* after eq_with against its own source returned true; when eq_with returns
\* false the worker's assertion fails, the run is aborted and the record is
\* never appended, so every record of the output collection has passed the
\* check.
C13_OnlyCheckedAppended ==
    /\ Len(origin) = Len(datas)
    /\ \A i \in 1..Len(datas) :
          LET w == origin[i]
          IN /\ wpc[w] \in {"pushed", "done"}
             /\ datas[i] = opt[w]
             /\ DataEqWith(interners, datas[i], file[w].data)
    /\ \A w \in Compacted :
          ~DataEqWith(interners, opt[w], file[w].data) =>
              /\ wpc[w] \in {"compacted", "panicked"}
              /\ wpc[w] = "panicked" => aborted
              /\ \A i \in 1..Len(origin) : origin[i] # w

C13_Witness ==
    \E w, u \in Threads :
        /\ wpc[w] = "done" /\ origin = <<w>> /\ datas = <<opt[w]>>
        /\ wpc[u] = "panicked" /\ u \in Compacted /\ aborted
        /\ ~DataEqWith(interners, opt[u], file[u].data)

\* C14: a compacted Success record is eq_with a source record only if
\* disruptions, lines and last_updated_date are all present and match and
\* status_code, error and message are all absent; a compacted Error record
\* is eq_with a source record only if status_code, error and message are
\* all present and match and disruptions, lines and last_updated_date are
\* all absent.
C14_VariantExclusive ==
    \A w \in Threads :
        wpc[w] = "compared" /\ verdict.result =>
            LET other == verdict.other
            IN IF opt[w].variant = "Success"
               THEN /\ is_some(other.disruptions) /\ is_some(other.lines)
                    /\ is_some(other.last_updated_date)
                    /\ SuccessFieldsMatch(interners, opt[w], other)
                    /\ is_none(other.status_code) /\ is_none(other.error)
                    /\ is_none(other.message)
               ELSE /\ is_some(other.status_code) /\ is_some(other.error)
                    /\ is_some(other.message)
                    /\ ErrorFieldsMatch(interners, opt[w], other)
                    /\ is_none(other.disruptions) /\ is_none(other.lines)
                    /\ is_none(other.last_updated_date)

\* A Success record whose success fields all match a source that also has a
\* status code: eq_with is false.
C14_Witness ==
    \E w \in Threads :
        /\ wpc[w] = "compared"
        /\ opt[w].variant = "Success"
        /\ SuccessFieldsMatch(interners, opt[w], verdict.other)
        /\ is_some(verdict.other.status_code)
        /\ Len(verdict.other.disruptions[1]) = 2
        /\ ~verdict.result

\* The fields of a file that are present.
Present(source) == {f \in DOMAIN source : is_some(source[f])}

\* C15: Data::from panics, and produces no compacted record, on every
\* source record whose fields are neither exactly the three success fields
\* nor exactly the three error fields; a record with both status_code and
\* disruptions is never compacted.
C15_RejectsMixedRecords ==
    \A w \in Threads :
        LET source == file[w].data
        IN /\ wpc[w] \notin {"off", "file", "parsed", "skipped"}
              /\ Present(source) # {"disruptions", "lines", "last_updated_date"}
              /\ Present(source) # {"status_code", "error", "message"}
              => wpc[w] = "panicked" /\ aborted /\ opt[w].variant = "none"
           /\ {"status_code", "disruptions"} \subseteq Present(source)
              => opt[w].variant = "none"

C15_Witness ==
    \E w \in Threads :
        /\ {"status_code", "disruptions", "lines", "last_updated_date"}
              = Present(file[w].data)
        /\ wpc[w] = "panicked"
        /\ opt[w].variant = "none"
        /\ interners \in {InternersDefault, WarmInterners}

\* The number of positions of a sequence that hold v.
CountOf(l, v) == Cardinality({i \in 1..Len(l) : l[i] = v})

\* The values the ids of a canonical array resolve to.
Resolved(store, canonical) ==
    [i \in 1..Len(canonical) |-> InternedLookupRef(store, "string", canonical[i])]

\* The reorderings of a sequence.
Reorderings(l) ==
    {[i \in 1..Len(l) |-> l[p[i]]] : p \in Permutations(1..Len(l))}

\* C16: over a store without repeated values, set_eq_by with the predicate
\* "resolve the handle and compare with the raw element" returns true
\* exactly when the raw slice has the length of the canonical array and is
\* a reordering of the values the canonical ids resolve to; the result is
\* the same for every order of the raw slice, and false when the lengths
\* differ or an element differs.
C16_SetEqIsMultisetEq ==
    call.pc = "returned" =>
        LET resolved == Resolved(call.store, call.canonical)
            pred == [x \in Elems(call.canonical), y \in Elems(call.raw) |->
                        InternedEqWith(call.store, "string", x, y)]
        IN /\ call.result <=> call.raw \in Reorderings(resolved)
           /\ call.result <=>
                  /\ Len(call.raw) = Len(call.canonical)
                  /\ \A v \in {"a", "b", "c"} :
                        CountOf(call.raw, v) = CountOf(resolved, v)
           /\ \A r \in Reorderings(call.raw) :
                  set_eq_by(call.canonical, r, pred) = call.result
           /\ Len(call.raw) # Len(call.canonical) => ~call.result

\* A canonical array with a repeated id matched by a raw slice in another
\* order.
C16_Witness ==
    /\ call.pc = "returned"
    /\ call.result
    /\ Len(call.canonical) = 3
    /\ call.canonical[1] = call.canonical[2]
    /\ call.raw # Resolved(call.store, call.canonical)

\* C17: for every store built by intern calls, the store deserialized from
\* its serialized form (its values in order, each replayed through push)
\* compares equal to the original, and every id below the length resolves
\* to the same value as in the original.
C17_StoreRoundTrip ==
    orig.taken /\ phase = "shared" =>
        /\ InternerEq(vec, orig.vec)
        /\ len = Len(orig.vec)
        /\ \A id \in 0..(Len(orig.vec) - 1) :
              /\ InRange(id)
              /\ LookupRef(id) = Borrow(orig.vec[id + 1])
              /\ Lookup(id) = orig.vec[id + 1]

C17_Witness ==
    /\ orig.taken
    /\ phase = "shared"
    /\ Len(orig.vec) = 3
    /\ loaded = 3
    /\ InternerEq(vec, orig.vec)

\* Interner::len of store k of the driver.
LenOf(k) == Len(interners[k].vec)

\* C19: a handle serializes as its u32 id alone and deserializes to a handle
\* with the same id, for every id from 0 to 2^32 - 1; deserialization does
\* not compare the id with the length of any store, so an id that is not
\* below the length of any store is accepted.
C19_HandleRoundTrip ==
    /\ call.pc \in {"serialized", "deserialized"} => call.wire = WireInt(call.id)
    /\ call.pc = "deserialized" => call.out = [ok |-> TRUE, id |-> call.id]

\* The largest id, read back beside stores none of which is that long.
C19_Witness ==
    /\ call.pc = "deserialized"
    /\ call.id = U32Max
    /\ call.out = [ok |-> TRUE, id |-> U32Max]
    /\ LenOf("string") = 2
    /\ \A k \in StoreNames : U32Lt(U32FromInt(LenOf(k)), call.id)

\* C18: for a database produced by ingestion, deserializing the serialized
\* database yields a database equal to it (stores as their value sequences,
\* handles as their u32 ids, InternedSets as run-length tokens), and the
\* driver has asserted that equality before it writes the file.
C18_DatabaseRoundTrip ==
    /\ call.pc \in {"db", "db_serialized", "db_deserialized", "asserted", "written"}
    /\ call.pc \in {"db_deserialized", "asserted", "written"}
          => DatabaseEq(call.out, call.db)

\* C20: on a store grown from empty by intern calls, two handles that intern
\* returned compare equal (eq, and cmp giving Equal) if and only if the values
\* they resolve to in that store have equal content.
HandedOut ==
    {p[2] : p \in returned} \cup {slot[t] : t \in {u \in Threads : pc[u] = "done"}}

C20_HandleEqIffContentEq ==
    \A a, b \in HandedOut :
        /\ InRange(a) /\ InRange(b)
        /\ InternedEq(a, b) <=> (LookupRef(a) = LookupRef(b))
        /\ (InternedCmp(a, b) = "Equal") <=> (LookupRef(a) = LookupRef(b))

C20_Witness ==
    \E t, u \in Threads : \E p \in returned :
        /\ t # u
        /\ pc[t] = "done" /\ pc[u] = "done"
        /\ Borrow(req[t]) = Borrow(req[u]) /\ req[t].repr # req[u].repr
        /\ InternedEq(slot[t], slot[u])
        /\ p[1] # Borrow(req[t])
        /\ ~InternedEq(p[2], slot[t])
        /\ InternedCmp(p[2], slot[t]) # "Equal"
        /\ LookupRef(p[2]) # LookupRef(slot[t])

\* The ids of a sequence are in ascending order.
AscendingIds(l) == \A i \in 1..(Len(l) - 1) : l[i] <= l[i + 1]

\* Two sequences hold every id the same number of times.
SameMultiset(l, m) ==
    /\ Len(l) = Len(m)
    /\ \A v \in Elems(l) \cup Elems(m) : CountOf(l, v) = CountOf(m, v)

\* C21: InternedSet::new yields the given handles in ascending id order, with
\* the length of the input and every id as many times as the input holds it:
\* repeated ids are kept.
C21_NewSortsKeepsDuplicates ==
    \A k \in 1..Len(call.sets) :
        /\ AscendingIds(call.sets[k])
        /\ Len(call.sets[k]) = Len(call.given[k])
        /\ SameMultiset(call.sets[k], call.given[k])

\* An input out of order that holds an id twice.
C21_Witness ==
    /\ call.pc = "interned"
    /\ call.given[1] = <<2, 0, 2>>
    /\ call.sets[1] = <<0, 2, 2>>

\* C22: two InternedSets built from the same multiset of handles, in whatever
\* order, are equal and intern to the same handle of a set store; two built
\* from different multisets are unequal and intern to different handles.
C22_SetEqualityIsMultisetEquality ==
    call.pc = "interned" =>
        /\ SameMultiset(call.given[1], call.given[2])
               <=> call.sets[1] = call.sets[2]
        /\ call.sets[1] = call.sets[2]
               <=> InternedEq(call.handles[1], call.handles[2])

\* The same multiset in two orders, under one handle of the set store.
C22_Witness ==
    /\ call.pc = "interned"
    /\ call.given[1] = <<1, 0, 1>>
    /\ call.given[2] = <<1, 1, 0>>
    /\ call.sets[1] = call.sets[2]
    /\ call.handles = <<0, 0>>
    /\ Len(call.store.uuid_set.vec) = 1

\* The positions of the output collection that hold worker w's record.
AppendedBy(w) == {i \in 1..Len(origin) : origin[i] = w}

\* C23: a file whose JSON does not parse adds one to the error counter,
\* interns nothing, leaves the output collection alone and neither aborts
\* the run nor moves any other worker; the success counter counts exactly
\* the files that were compacted, passed the check and were appended.
C23_ParseErrorsAreSkipped ==
    /\ [](/\ file_error_count = Cardinality({w \in Threads : wpc[w] = "skipped"})
          /\ file_count = Cardinality({w \in Threads : wpc[w] = "done"})
          /\ \A w \in Threads :
                /\ file[w].json = "bad" =>
                      /\ wpc[w] \in {"file", "skipped"}
                      /\ opt[w].variant = "none"
                      /\ AppendedBy(w) = {}
                /\ wpc[w] = "skipped" => file[w].json = "bad"
                /\ wpc[w] = "done" =>
                      /\ file[w].json # "bad"
                      /\ opt[w].variant # "none"
                      /\ DataEqWith(interners, opt[w], file[w].data)
                      /\ Cardinality(AppendedBy(w)) = 1
                      /\ \A i \in AppendedBy(w) : datas[i] = opt[w]
          /\ (\A w \in Threads : file[w].json = "bad") =>
                interners = InternersDefault)
    /\ [][\A w \in Threads :
             wpc[w] = "file" /\ file[w].json = "bad" /\ wpc'[w] # wpc[w] =>
                /\ wpc'[w] = "skipped"
                /\ file_error_count' = file_error_count + 1
                /\ UNCHANGED <<interners, datas, file_count, aborted>>
                /\ \A u \in Threads \ {w} : wpc'[u] = wpc[u]]_vars

\* One worker skipped its file, the other ingested its own and was counted.
C23_Witness ==
    \E w, u \in Threads :
        /\ wpc[w] = "skipped" /\ file[w].json = "bad"
        /\ wpc[u] = "done" /\ file[u].json # "bad"
        /\ file_error_count = 1
        /\ file_count = 1
        /\ Len(datas) = 1
        /\ ~aborted

\* Every worker is through with its file.
AllFinished == \A w \in Threads : wpc[w] \in {"done", "skipped"}

\* C24: once all workers have finished and none aborted, the output
\* collection holds exactly one record per ingested file, the record that
\* file's worker compacted, and its length is the success counter.
C24_OneRecordPerFile ==
    AllFinished /\ ~aborted =>
        /\ Len(datas) = file_count
        /\ Len(datas) = Cardinality({w \in Threads : file[w].json # "bad"})
        /\ \A w \in Threads :
              file[w].json # "bad" =>
                  /\ Cardinality(AppendedBy(w)) = 1
                  /\ \A i \in AppendedBy(w) : datas[i] = opt[w]
        /\ \A i \in 1..Len(datas) : file[origin[i]].json # "bad"

\* Two workers appended different records, the second to start appended
\* first.
C24_Witness ==
    /\ AllFinished
    /\ ~aborted
    /\ Len(datas) = 2
    /\ file_count = 2
    /\ origin = <<2, 1>>
    /\ datas[1] # datas[2]

\* C25: every push appends its value at the end of the value sequence and
\* returns (and files in the index) the previous length as the id, whether
\* or not a value of equal content is already stored.
C25_PushAlwaysAppends ==
    [][phase = "loading" /\ input # <<>> /\ input' # input =>
          /\ vec' = Append(vec, Head(input))
          /\ Len(vec') = Len(vec) + 1
          /\ map' \ map = {[hash |-> HashOne(Borrow(Head(input))), id |-> Len(vec)]}
          /\ map \subseteq map'
          /\ references' = references]_vars

\* A value pushed twice stands under two ids.
C25_Witness ==
    /\ loaded = 2
    /\ len = 2
    /\ LookupRef(0) = LookupRef(1)
    /\ Cardinality(map) = 2

\* The index entries that hold id.
EntriesOf(id) == {e \in map : e.id = id}

\* C26: in every reachable state every index entry holds an id below len
\* whose stored value hashes to the hash the entry is filed under, and no id
\* has two entries; an id without an entry is the one an intern call in
\* progress has appended and not filed yet, so that when no call is in
\* progress every id of 0 .. len - 1 has exactly one entry.
C26_IndexConsistent ==
    /\ \A e \in map : InRange(e.id) /\ HashOne(LookupRef(e.id)) = e.hash
    /\ \A id \in 0..(len - 1) :
          /\ Cardinality(EntriesOf(id)) <= 1
          /\ EntriesOf(id) = {} => \E t \in Threads : pc[t] = "pushed" /\ slot[t] = id
    /\ Quiescent => \A id \in 0..(len - 1) : Cardinality(EntriesOf(id)) = 1

\* A store of one pushed and two interned values, two of them filed under
\* the same hash, with no call in progress.
C26_Witness ==
    /\ Quiescent
    /\ phase = "shared"
    /\ loaded = 1
    /\ len = 3
    /\ Cardinality(map) = 3
    /\ \E e, f \in map : e # f /\ e.hash = f.hash

\* The ids of the deserialized values that hold content c.
DeserializedIds(c) == {i \in 0..(loaded - 1) : LookupRef(i) = c}

\* C27: in a store produced by deserialization, an intern call for a content
\* that stands among the deserialized values returns an id at which it
\* stands there (its one original id when the sequence holds it once) and
\* the store gains no value of that content; an intern call for any other
\* content appends the value at the id that is len at that moment, once.
C27_RebuiltIndexDedups ==
    /\ [](/\ \A p \in returned :
                IF DeserializedIds(p[1]) # {}
                THEN p[2] \in DeserializedIds(p[1])
                ELSE p[2] >= loaded /\ InRange(p[2]) /\ LookupRef(p[2]) = p[1]
          /\ \A i \in loaded..(len - 1) :
                /\ DeserializedIds(LookupRef(i)) = {}
                /\ \A j \in loaded..(len - 1) : LookupRef(j) = LookupRef(i) => j = i)
    /\ [][phase = "shared" /\ vec' # vec =>
             \E t \in Threads :
                /\ pc[t] = "vacant"
                /\ ~Stored(Borrow(req[t]))
                /\ slot'[t] = len
                /\ vec' = Append(vec, Into(req[t]))]_vars

\* After one value was deserialized, a call for its content returned id 0
\* and a call for another content appended at id 1.
C27_Witness ==
    /\ Quiescent
    /\ loaded = 1
    /\ len = 2
    /\ completed = 2
    /\ <<LookupRef(0), 0>> \in returned
    /\ <<LookupRef(1), 1>> \in returned

\* The one-to-one pairings of the positions of lhs with those of rhs in
\* which every pair satisfies the predicate.
Pairings(lhs, rhs, pred) ==
    IF Len(lhs) # Len(rhs) THEN {}
    ELSE {p \in Permutations(1..Len(lhs)) :
             \A i \in 1..Len(lhs) : pred[lhs[i], rhs[p[i]]]}

\* C28: whatever the predicate, set_eq_by returns true only if the slices
\* have the same length and there is a one-to-one pairing of all elements of
\* the one with all elements of the other in which every pair satisfies the
\* predicate.
C28_NoFalsePositive ==
    call.pc = "returned" /\ call.result =>
        /\ Len(call.lhs) = Len(call.rhs)
        /\ Pairings(call.lhs, call.rhs, call.pred) # {}

\* A predicate that lets the first two elements pair either way: true is
\* returned and two pairings exist.
C28_Witness ==
    /\ call.pc = "returned"
    /\ call.result
    /\ Len(call.lhs) = 3
    /\ call.pred[1, 1] /\ call.pred[1, 2] /\ call.pred[2, 1] /\ call.pred[2, 2]
    /\ Cardinality(Pairings(call.lhs, call.rhs, call.pred)) = 2

\* C29: the first token the encoder emits is non-negative and is the first
\* id itself, which is never counted into a run, also when it is 1; the ids
\* [1,2,3] encode as [1,-2] and [0,1] as [0,-1].
C29_FirstIdIsPlainToken ==
    cpc # "new" =>
        /\ iset # <<>> =>
              /\ wire # <<>>
              /\ wire[1] >= 0
              /\ AsU32(wire[1]) = iset[1]
        /\ iset = <<U32FromInt(1), U32FromInt(2), U32FromInt(3)>> => wire = <<1, -2>>
        /\ iset = <<U32Zero, U32One>> => wire = <<0, -1>>

\* The number of ids a token adds to prev: x, or the length -x of a run.
Advance(x) == IF x = I32Min THEN <<Limb \div 2, 0>> ELSE AsU32(IF x < 0 THEN -x ELSE x)

\* The running sum of the tokens stays within u32.
RECURSIVE WithinU32(_, _)
WithinU32(tokens, prev) ==
    IF tokens = <<>> THEN TRUE
    ELSE LET s == U32Add(prev, Advance(Head(tokens)))
         IN ~s.overflow /\ WithinU32(Tail(tokens), s.val)

\* C30: for every token sequence whose running sum stays within u32, the
\* sequence the decoder returns is in non-decreasing id order.
C30_DecodedIsAscending ==
    cpc = "decoded" /\ WithinU32(wire, U32Zero) => Ascending(oset)

\* A run, a repeated id and a large difference decoded in one sequence.
C30_Witness ==
    /\ cpc = "decoded"
    /\ wire = <<-2, 0, I32Max>>
    /\ Len(oset) = 4
    /\ oset[2] = oset[3]
    /\ Ascending(oset)

\* C33: in every reachable state of a store grown from empty by intern
\* calls, between the steps of concurrent calls included, the number of
\* stored values is at most the request counter.
C33_LenAtMostReferences == len <= references

\* Every request so far has appended a value, and one call is between its
\* append and its insertion into the index.
C33_Witness ==
    /\ len = references
    /\ len >= 2
    /\ \E t \in Threads : pc[t] = "pushed"

\* C34: eq_with of a compacted record against a source record, whatever
\* its result, leaves the value sequence, the length and the request counter
\* of every store as they were.
C34_EqWithReadOnly ==
    [][\A w \in Threads :
          wpc[w] = "compacted" /\ wpc'[w] # wpc[w] =>
             \A k \in StoreNames :
                /\ interners'[k].vec = interners[k].vec
                /\ Len(interners'[k].vec) = Len(interners[k].vec)
                /\ interners'[k].references = interners[k].references]_vars

\* A success record on used stores was compared with a record that differs
\* from its source, and with its source.
C34_Witness ==
    /\ wpc[1] = "compared"
    /\ opt[1].variant = "Success"
    /\ Len(interners.disruption.vec) >= 1
    /\ interners.string.references > 2
    /\ verdict.other # file[1].data
    /\ ~verdict.result

\* C37: when Data::from rejects a source record that is neither a success
\* nor an error record, no store has changed: the value sequence, the length
\* and the request counter of every store are what they were before the
\* call.
C37_RejectsBeforeInterning ==
    [][\A w \in Threads :
          /\ wpc[w] = "parsed"
          /\ ~SuccessShaped(file[w].data)
          /\ ~ErrorShaped(file[w].data)
          /\ wpc'[w] # wpc[w]
          => /\ wpc'[w] = "panicked"
             /\ opt'[w].variant = "none"
             /\ \A k \in StoreNames :
                   /\ interners'[k].vec = interners[k].vec
                   /\ interners'[k].references = interners[k].references]_vars

\* A record with the error fields and one success field was rejected on
\* stores that held values: they hold the same values.
C37_Witness ==
    /\ wpc[1] = "panicked"
    /\ Present(file[1].data) = {"status_code", "error", "message", "disruptions"}
    /\ interners = WarmInterners

\* The positions of a set that repeat the id before them.
Repeats(set) == {i \in 2..Len(set) : set[i] = set[i - 1]}

\* The differences the encoder computes: the first id, then every gap.
Gaps(set) ==
    [i \in 1..Len(set) |-> U32Sub(set[i], IF i = 1 THEN U32Zero ELSE set[i - 1]).val]

\* A difference of 2^31 or more.
Wide(d) == d[1] >= Limb \div 2

\* C35: an ascending id sequence that holds an id more than once also
\* round-trips: every repeated id is written as a token 0 and decoding the
\* tokens yields the sequence.
C35_RoundTripWithDuplicates ==
    Repeats(iset) # {} /\ cpc # "new" =>
        /\ Cardinality({i \in 1..Len(wire) : wire[i] = 0})
              = Cardinality(Repeats(iset)) + (IF iset[1] = U32Zero THEN 1 ELSE 0)
        /\ cpc # "encoded" => cpc = "decoded" /\ oset = iset

\* C36: for ascending ids over the whole u32 range, a first id or a gap of
\* 2^31 or more is written as a non-negative token and decoded back to the
\* same ids: no token is negative but those that close a run.
C36_WideGapsDoNotWrap ==
    (\E i \in 1..Len(iset) : Wide(Gaps(iset)[i])) /\ cpc # "new" =>
        /\ Cardinality({i \in 1..Len(wire) : wire[i] < 0})
              <= Cardinality({i \in 2..Len(iset) : Gaps(iset)[i] = U32One})
        /\ cpc # "encoded" => cpc = "decoded" /\ oset = iset

\* Worker w takes the step.
StepOf(w) == wpc'[w] # wpc[w] \/ work'[w] # work[w]

\* The source disruptions whose handles worker w holds, with the handles.
HandledDisruptions(w) ==
    IF is_some(file[w].data.disruptions)
    THEN {<<file[w].data.disruptions[1][i], work[w].dh[i]>> : i \in 1..Len(work[w].dh)}
    ELSE {}

\* C31: once a source record has been compacted, compacting a record of
\* equal content against the same stores appends no entry to any store and
\* yields a compacted record equal to the first; equal sub-objects, of one
\* record or of different records, get the same handle, and no store holds
\* a value twice.
C31_RecompactionAddsNothing ==
    /\ [](/\ \A w, u \in Compacted : file[w] = file[u] => opt[w] = opt[u]
          /\ \A k \in StoreNames : \A i, j \in 1..Len(interners[k].vec) :
                interners[k].vec[i] = interners[k].vec[j] => i = j
          /\ \A w, u \in Threads :
                \A p \in HandledDisruptions(w), q \in HandledDisruptions(u) :
                   p[1] = q[1] => p[2] = q[2])
    /\ [][\A w, u \in Threads :
             w # u /\ file[w] = file[u] /\ u \in Compacted /\ StepOf(w) =>
                \A k \in StoreNames : interners'[k].vec = interners[k].vec]_vars

\* Two workers compacted the same file, whose record holds one disruption
\* twice: equal records, and one slot for the four disruptions.
C31_Witness ==
    /\ file[1] = Parsed(Base.S2)
    /\ file[2] = file[1]
    /\ wpc[1] = "done" /\ wpc[2] = "done"
    /\ origin = <<1, 2>>
    /\ opt[1] = opt[2]
    /\ Len(interners.disruption.vec) = 1
    /\ interners.disruption.references = 4
    /\ Len(interners.disruption_set.vec) = 1

\* C32: with finitely many files and fair scheduling, every intern call
\* that has begun returns, and every worker comes to the end of its file or
\* panics: neither the locks of the stores nor the output mutex keep a
\* worker waiting for ever.
C32_RunTerminates ==
    /\ \A t \in Threads : (pc[t] = "counted") ~> (pc[t] = "done")
    /\ \A w \in Threads : <>(wpc[w] \in {"done", "panicked"})
    /\ <>[](\A w \in Threads : wpc[w] \in {"done", "panicked"})

\* A worker inside Data::from waits at entry() for the lock that another
\* worker's intern call holds.
C32_Witness ==
    \E t, u \in Threads :
        /\ t # u
        /\ wpc[t] = "parsed" /\ wpc[u] = "parsed"
        /\ pc[t] = "counted"
        /\ lock[HashOne(Borrow(req[t]))] = u
        /\ pc[u] \in {"vacant", "pushed", "occupied"}

====
